---- MODULE Spec2Model ----
(***************************************************************************)
(* A model of the crawl-and-rank engine of complete_crawler.py: the URL    *)
(* classifier, the link extractor, the relevance scorer and the crawl      *)
(* scheduler of CompleteCrawler.run_complete_crawl.  URLs are strings, and  *)
(* every string function of the program (lower-casing, substring search,   *)
(* urlparse/urlunparse, urljoin, string comparison) is computed on the     *)
(* characters of the string.                                               *)
(***************************************************************************)
EXTENDS Integers, Sequences, FiniteSets, TLC

(***************************************************************************)
(* Strings                                                                 *)
(***************************************************************************)

\* The characters that occur in the URLs of the model, in code-point order.
Alphabet == "#-./:=?ABCDEFGHIJKLMNOPQRSTUVWXYZ_abcdefghijklmnopqrstuvwxyz"

UpperCase == "ABCDEFGHIJKLMNOPQRSTUVWXYZ"

LowerCase == "abcdefghijklmnopqrstuvwxyz"

CharAt(s, i) == SubSeq(s, i, i)

\* Position of the one-character string c in s, 0 when it does not occur.
PosIn(c, s) ==
    IF \E i \in 1..Len(s) : CharAt(s, i) = c
    THEN CHOOSE i \in 1..Len(s) : CharAt(s, i) = c /\ \A j \in 1..(i - 1) : CharAt(s, j) # c
    ELSE 0

\* ord(c), up to an order-preserving renumbering.
Ord(c) == PosIn(c, Alphabet)

LowerChar(c) == IF PosIn(c, UpperCase) = 0 THEN c ELSE CharAt(LowerCase, PosIn(c, UpperCase))

RECURSIVE Lower(_)
\* str.lower()
Lower(s) == IF s = "" THEN "" ELSE LowerChar(CharAt(s, 1)) \o Lower(SubSeq(s, 2, Len(s)))

\* kw in s
Contains(s, kw) ==
    \E i \in 1..(Len(s) - Len(kw) + 1) : SubSeq(s, i, i + Len(kw) - 1) = kw

\* any(p in s for p in patterns)
ContainsAny(s, patterns) == \E i \in 1..Len(patterns) : Contains(s, patterns[i])

\* sum(1 for p in patterns if p in s)
CountIn(s, patterns) == Cardinality({i \in 1..Len(patterns) : Contains(s, patterns[i])})

\* First position >= from of a character of the string chars, Len(s) + 1 if none.
FindFirst(s, chars, from) ==
    IF \E i \in from..Len(s) : PosIn(CharAt(s, i), chars) # 0
    THEN CHOOSE i \in from..Len(s) :
            /\ PosIn(CharAt(s, i), chars) # 0
            /\ \A j \in from..(i - 1) : PosIn(CharAt(s, j), chars) = 0
    ELSE Len(s) + 1

RECURSIVE StrLess(_, _)
\* s < t on Python strings: code-point lexicographic order.
StrLess(s, t) ==
    IF t = "" THEN FALSE
    ELSE IF s = "" THEN TRUE
    ELSE IF CharAt(s, 1) # CharAt(t, 1) THEN Ord(CharAt(s, 1)) < Ord(CharAt(t, 1))
    ELSE StrLess(SubSeq(s, 2, Len(s)), SubSeq(t, 2, Len(t)))

(***************************************************************************)
(* urllib.parse on the URLs of the model: absolute URLs scheme://netloc... *)
(* and root-relative references /path?query#fragment, with no ;params.     *)
(***************************************************************************)

\* Position of "://" in s, 0 when absent.
SchemeEnd(s) ==
    IF \E i \in 1..(Len(s) - 2) : SubSeq(s, i, i + 2) = "://"
    THEN CHOOSE i \in 1..(Len(s) - 2) :
            /\ SubSeq(s, i, i + 2) = "://"
            /\ \A j \in 1..(i - 1) : SubSeq(s, j, j + 2) # "://"
    ELSE 0

\* urlparse(url): the fragment is cut at the first "#", the query at the first
\* "?" before it, the netloc runs from "//" to the first of "/", "?", "#".
urlparse(url) ==
    LET se    == SchemeEnd(url)
        start == IF se = 0 THEN 1 ELSE se + 3
        ne    == IF se = 0 THEN 1 ELSE FindFirst(url, "/?#", start)
        pe    == FindFirst(url, "?#", ne)
        qe    == FindFirst(url, "#", pe)
    IN  [ scheme   |-> IF se = 0 THEN "" ELSE Lower(SubSeq(url, 1, se - 1)),
          netloc   |-> IF se = 0 THEN "" ELSE SubSeq(url, start, ne - 1),
          path     |-> SubSeq(url, ne, pe - 1),
          query    |-> IF pe > Len(url) \/ CharAt(url, pe) = "#" THEN ""
                       ELSE SubSeq(url, pe + 1, qe - 1),
          fragment |-> SubSeq(url, qe + 1, Len(url)) ]

\* urlunparse((scheme, netloc, path, '', query, fragment))
urlunparse(p) ==
    (IF p.netloc # "" THEN p.scheme \o "://" \o p.netloc ELSE "")
      \o p.path
      \o (IF p.query # "" THEN "?" \o p.query ELSE "")
      \o (IF p.fragment # "" THEN "#" \o p.fragment ELSE "")

\* urljoin(base, href) for an absolute href (returned as it is) and for a
\* root-relative one (it takes the scheme and the netloc of the base).
urljoin(base, href) ==
    IF SchemeEnd(href) # 0 THEN href
    ELSE LET b == urlparse(base)
             h == urlparse(href)
         IN  urlunparse([h EXCEPT !.scheme = b.scheme, !.netloc = b.netloc])

(***************************************************************************)
(* The keyword tables                                                      *)
(***************************************************************************)

KEYWORDS_PRIMARY ==
    << "shipping", "delivery", "returns", "return", "refund", "exchange", "exchanges",
       "warranty", "guarantee", "shipping-policy", "return-policy", "shipping-info" >>

KEYWORDS_SECONDARY ==
    << "policy", "policies", "help", "support", "faq", "faqs", "customer-service",
       "customer-care", "care", "assistance", "contact", "about" >>

PATH_KEYWORDS ==
    << "return-policy", "returns-policy", "shipping-policy", "delivery-policy",
       "how-to-return", "howtoreturn", "returns-exchanges", "shipping-delivery",
       "help-center", "customer-care", "customer-service", "support-center" >>

NOISE_PATTERNS ==
    << "/products/", "/product/", "/collections/", "/cart", "/checkout",
       "/search", "/account", "/signin", "/login", "/signup", "/register",
       "/blogs/", "/blog/", "/news/", "/press/", "?", "#", "/archive/" >>

NON_EN_LOCALES ==
    << "/fr/", "/es/", "/de/", "/it/", "/jp/", "/zh/", "/pt/", "/ru/",
       "/mx/", "/cl/", "/cr/", "/ar/", "/br/", "/co/", "/pe/", "/uy/",
       "/ve/", "/uk/", "/tr/", "/kz/", "/kh/", "/nl/", "/sv/", "/da/" >>

us_patterns == << "/us/", "/en-us/", "/us-en/", "/en_us/", "/us_en/" >>

non_us_patterns ==
    << "/en-gb/", "/en-au/", "/en-ca/", "/en-nz/", "/en-eu/",
       "/en-it/", "/en-ch/", "/gb/", "/au/", "/ca/", "/nz/",
       "/fr/", "/fr-", "/de/", "/es/", "/it/", "/pt/", "/ru/",
       "/zh/", "/jp/", "/kr/", "/mx/", "/br/", "/ar/", "/in/" >>

policy_paths == << "/pages/", "/help/", "/support/", "/policies/" >>

(***************************************************************************)
(* The crawled site                                                        *)
(***************************************************************************)

\* CompleteCrawler.domain and CompleteCrawler.base_url
domain == "x.io"

\* f"https://{domain}"
HomepageOf(d) == "https://" \o d

base_url == HomepageOf(domain)

\* robots_url = f"{self.base_url}/robots.txt"
robots_url == base_url \o "/robots.txt"

(***************************************************************************)
(* URL classifier                                                          *)
(***************************************************************************)

\* is_same_domain of the crawler of domain d.
SameDomain(d, url) == Contains(Lower(urlparse(url).netloc), Lower(d))

is_same_domain(url) == SameDomain(domain, url)

is_english_url(url) == ~ContainsAny(Lower(url), NON_EN_LOCALES)

is_us_url(url) ==
    IF ContainsAny(Lower(url), us_patterns) THEN TRUE
    ELSE IF ContainsAny(Lower(url), non_us_patterns) THEN FALSE
    ELSE TRUE

\* The three-way test of process_sitemap and extract_links_from_html.
Eligible(url) == is_same_domain(url) /\ is_english_url(url) /\ is_us_url(url)

\* The test in the crawler of domain d, had it left out the domain.
EligibleFor_AnyDomain(d, url) == is_english_url(url) /\ is_us_url(url)

\* The same test in the crawler of domain d.
EligibleFor(d, url) == SameDomain(d, url) /\ is_english_url(url) /\ is_us_url(url)

(***************************************************************************)
(* Relevance scorer                                                        *)
(***************************************************************************)

Max(a, b) == IF a >= b THEN a ELSE b

Min(a, b) == IF a <= b THEN a ELSE b

\* The score without max(0, score): the penalties may take it below zero.
score_url_NoFloor(url) ==
    LET url_lower == Lower(url)
    IN    5 * CountIn(url_lower, KEYWORDS_PRIMARY)
        + 3 * CountIn(url_lower, KEYWORDS_SECONDARY)
        + 4 * CountIn(url_lower, PATH_KEYWORDS)
        + (IF ContainsAny(url_lower, policy_paths) THEN 2 ELSE 0)
        + (IF Contains(url_lower, "/us/") \/ Contains(url_lower, "/en-us/") THEN 3 ELSE 0)
        - 2 * CountIn(url_lower, NOISE_PATTERNS)

\* The score, had the primary keywords earned their 5 points once for all.
score_url_PrimaryOnce(url) ==
    LET url_lower == Lower(url)
    IN  Max(0,   (IF ContainsAny(url_lower, KEYWORDS_PRIMARY) THEN 5 ELSE 0)
               + 3 * CountIn(url_lower, KEYWORDS_SECONDARY)
               + 4 * CountIn(url_lower, PATH_KEYWORDS)
               + (IF ContainsAny(url_lower, policy_paths) THEN 2 ELSE 0)
               + (IF Contains(url_lower, "/us/") \/ Contains(url_lower, "/en-us/") THEN 3 ELSE 0)
               - 2 * CountIn(url_lower, NOISE_PATTERNS))

\* The score, had a keyword that stands on the primary list earned nothing
\* as a path keyword.
score_url_OneList(url) ==
    LET url_lower == Lower(url)
        primary   == {KEYWORDS_PRIMARY[i] : i \in 1..Len(KEYWORDS_PRIMARY)}
        path_only == {i \in 1..Len(PATH_KEYWORDS) :
                         PATH_KEYWORDS[i] \notin primary /\ Contains(url_lower, PATH_KEYWORDS[i])}
    IN  Max(0,   5 * CountIn(url_lower, KEYWORDS_PRIMARY)
               + 3 * CountIn(url_lower, KEYWORDS_SECONDARY)
               + 4 * Cardinality(path_only)
               + (IF ContainsAny(url_lower, policy_paths) THEN 2 ELSE 0)
               + (IF Contains(url_lower, "/us/") \/ Contains(url_lower, "/en-us/") THEN 3 ELSE 0)
               - 2 * CountIn(url_lower, NOISE_PATTERNS))

score_url(url) ==
    LET url_lower == Lower(url)
    IN  Max(0,   5 * CountIn(url_lower, KEYWORDS_PRIMARY)
               + 3 * CountIn(url_lower, KEYWORDS_SECONDARY)
               + 4 * CountIn(url_lower, PATH_KEYWORDS)
               + (IF ContainsAny(url_lower, policy_paths) THEN 2 ELSE 0)
               + (IF Contains(url_lower, "/us/") \/ Contains(url_lower, "/en-us/") THEN 3 ELSE 0)
               - 2 * CountIn(url_lower, NOISE_PATTERNS))

(***************************************************************************)
(* What the site serves.  A page is the set of the href values of its      *)
(* anchors; a sitemap is the set of the texts of its loc elements.         *)
(***************************************************************************)

\* Largest page budget of the model.
MaxPages == 5

\* The counters of the model that no run of the program bounds stop here.
IterationCap == MaxPages + 2

FetchCap == 2

HtmlDocs ==
    { {},
      {"/faq", "/faq?a=1", "/help#top"},
      {"https://x.io/returns", "/FR/faq", "https://y.com/help"},
      {"/cart", "https://x.io"},
      {"/shop"} }

SitemapDocs ==
    { {},
      {"https://x.io/faq?a=1", "https://x.io/fr/help", "https://x.io/policy"},
      {"https://x.io/faq", "https://x.io/faq#top", "https://y.com/faq"} }

\* The domains find_policy_links is called with: a shop, and the help
\* subdomain the scraper tries for it.
Domains == {"shop.example", "help.shop.example"}

\* Largest limit find_policy_links is called with.
MaxLimit == 3

\* Largest number of runs of run_complete_crawl on one crawler.
RunCap == 2

\* The page budgets of the sessions that crawl no further than the homepage.
HomepageBudgets == {0, 1}

\* What the homepage of the called domain serves, and what its sitemaps list.
HomepageDocs ==
    { {},
      {"/pages/faq", "/returns?id=1#top", "/en-gb/help", "https://other.example/help"} }

DomainSitemapDocs ==
    { {},
      {"https://shop.example/pages/return-policy", "https://shop.example/fr/pages/retours"},
      {"https://shop.example/pages/shipping-policy", "https://shop.example/pages/return-policy",
       "https://shop.example/collections/all?sort=price"} }

(***************************************************************************)
(* The state of one crawl session                                          *)
(***************************************************************************)

VARIABLES
    pc,             \* where run_complete_crawl stands
    max_pages,      \* CompleteCrawler.max_pages
    found_urls,     \* CompleteCrawler.found_urls, the Discovered Set
    crawled_urls,   \* CompleteCrawler.crawled_urls, the Crawled Set
    policy_urls,    \* CompleteCrawler.policy_urls
    to_crawl,       \* the frontier of run_complete_crawl
    current_batch,  \* the batch of the running iteration
    task,           \* for each URL of the batch, where its crawl_page task stands
    results,        \* for each finished task, what asyncio.gather returns for it
    returned,       \* the list run_complete_crawl returns
    sitemap_urls,   \* what fetch_sitemap_urls returned
    sitemap_locs,   \* the loc texts the sitemaps listed
    iterations,     \* iterations of the while loop started so far
    fetch_count,    \* for each URL, the fetches crawl_page issued for it
    starved,        \* some crawled page yielded no undiscovered link
    target,         \* the domain the crawler was constructed for
    limit,          \* the limit find_policy_links was called with
    policy_links,   \* the list find_policy_links returns
    runs,           \* calls of run_complete_crawl on the crawler so far
    fetch_log,      \* what became of the fetches of the sitemaps and of the homepage
    previous,       \* the Discovered Set and the list returned at the end of the run before
    now,            \* time.time()
    request_delays,     \* CompleteCrawler.request_delays
    last_request_time,  \* CompleteCrawler.last_request_time
    fpc,            \* where the running fetch_url call stands
    fetch_arg,      \* the url argument of the fetch_url call
    gets,           \* GET requests the call has issued
    slept,          \* the delays the call has passed to asyncio.sleep after a 429
    responses,      \* the responses the call has received
    outcome,        \* what the call returned
    calls,          \* fetch_url calls started so far
    backoffs,       \* for each host whose delay only 429 responses without Retry-After
                    \* have set, the number of these responses
    batch_delay,    \* the delay the while loop last passed to asyncio.sleep
    unparsed,       \* the URLs of the batch whose page lxml could not parse
    rpc,            \* where fetch_sitemap_urls stands
    robots,         \* what became of the fetch of robots.txt
    robots_content, \* the text of robots.txt
    sitemap_list,   \* the list sitemap_urls of fetch_sitemap_urls
    next_top,       \* the entry of the list the for loop comes to next
    top_calls,      \* the URLs fetch_sitemap_urls has called process_sitemap with
    stack,          \* the process_sitemap calls under way, outermost first
    urls,           \* the set urls of fetch_sitemap_urls
    requests,       \* the requests of the reader: the URL, and who issued the GET
    last,           \* what the last response to process_sitemap came to
    parsed_top,     \* the sitemaps of the list whose document parsed
    failed,         \* the sitemaps whose fetch or parse failed
    overflowed,     \* a process_sitemap call raised RecursionError
    callers,        \* for each crawl_page task of a batch, where its fetch_url call stands
    get_log,        \* the GET requests of these calls: the call, the time, first or second
    ppc,            \* where step 3 of _get_prioritized_policy_urls stands
    all_urls,       \* the list all_urls of _get_prioritized_policy_urls
    api_key,        \* OPENAI_API_KEY is set
    api_outcome,    \* what the call of the chat model came to
    prioritized,    \* the list _ai_prioritize_urls returned
    delivered,      \* the list _get_prioritized_policy_urls returns
    spc,            \* where the score_url call stands
    scored_url,     \* the url argument of the score_url call
    url_score       \* what the score_url call returned

\* The state of the crawl session.
crawl_vars ==
    << pc, max_pages, found_urls, crawled_urls, policy_urls, to_crawl, current_batch,
       task, results, returned, sitemap_urls, sitemap_locs, iterations, fetch_count,
       starved >>

\* The state of a find_policy_links call around the crawl session.
call_vars == << target, limit, policy_links, runs, fetch_log, previous >>

\* The state of the fetcher.
fetch_vars ==
    << now, request_delays, last_request_time, fpc, fetch_arg, gets, slept, responses,
       outcome, calls, backoffs >>

\* What the while loop did last.
loop_vars == << batch_delay, unparsed >>

\* The state of fetch_sitemap_urls.
reader_vars ==
    << rpc, robots, robots_content, sitemap_list, next_top, top_calls, stack, urls,
       requests, last, parsed_top, failed, overflowed >>

\* The state of the fetch_url calls of a batch.
race_vars == << callers, get_log >>

\* The state of the prioritization of scraper.py.
rank_vars == << ppc, all_urls, api_key, api_outcome, prioritized, delivered >>

\* The state of a score_url call.
score_vars == << spc, scored_url, url_score >>

\* The state of what runs beside a crawl session.
side_vars == << reader_vars, race_vars, rank_vars, score_vars >>

vars ==
    << pc, max_pages, found_urls, crawled_urls, policy_urls, to_crawl, current_batch,
       task, results, returned, sitemap_urls, sitemap_locs, iterations, fetch_count,
       starved, call_vars, fetch_vars, loop_vars, side_vars >>

\* Number of URLs the while loop takes from the frontier at a time.
BatchSize == 10

\* What the fetches of a session came to, before any is made.
NoFetches == [sitemaps |-> "none", homepage |-> "none"]

\* What the run before left, when there was none.
NoRun == [found |-> {}, returned |-> << >>]

\* The session is the first run of a crawler of the domain, and no
\* find_policy_links call surrounds it.
CrawlerRunAlone ==
    /\ target = domain
    /\ limit = 0
    /\ policy_links = << >>
    /\ runs = 1
    /\ fetch_log = NoFetches
    /\ previous = NoRun

\* request_delays and last_request_time of __init__; no fetch_url call runs.
FetcherInit ==
    /\ now = 0
    /\ request_delays = << >>
    /\ last_request_time = << >>
    /\ fpc = "idle"
    /\ fetch_arg = ""
    /\ gets = 0
    /\ slept = << >>
    /\ responses = << >>
    /\ outcome = "none"
    /\ calls = 0
    /\ backoffs = << >>

\* What the last response to process_sitemap came to, before any.
NoResponse == [url |-> "", result |-> "none", decompress |-> "none", kept |-> {}]

\* fetch_sitemap_urls has not been called.
ReaderInit ==
    /\ rpc = "start"
    /\ robots = "none"
    /\ robots_content = ""
    /\ sitemap_list = << >>
    /\ next_top = 1
    /\ top_calls = << >>
    /\ stack = << >>
    /\ urls = {}
    /\ requests = {}
    /\ last = NoResponse
    /\ parsed_top = {}
    /\ failed = {}
    /\ overflowed = FALSE

\* No batch of fetch_url calls is modelled.
NoCallers ==
    /\ callers = << >>
    /\ get_log = {}

\* Step 3 of _get_prioritized_policy_urls is not modelled.
NoRanking ==
    /\ ppc = "start"
    /\ all_urls = << >>
    /\ api_key = FALSE
    /\ api_outcome = [raises |-> FALSE, content |-> ""]
    /\ prioritized = << >>
    /\ delivered = << >>

\* score_url has not been called on its own.
NoScoring ==
    /\ spc = "start"
    /\ scored_url = ""
    /\ url_score = 0

\* Nothing runs beside the crawl session.
SideInit == ReaderInit /\ NoCallers /\ NoRanking /\ NoScoring

\* The sets and the list of __init__; run_complete_crawl has not started.
Constructed ==
    /\ found_urls = {}
    /\ crawled_urls = {}
    /\ policy_urls = << >>
    /\ to_crawl = {}
    /\ current_batch = {}
    /\ task = << >>
    /\ results = << >>
    /\ returned = << >>
    /\ sitemap_urls = {}
    /\ sitemap_locs = {}
    /\ iterations = 0
    /\ fetch_count = << >>
    /\ starved = FALSE
    /\ batch_delay = 0
    /\ unparsed = {}

\* CompleteCrawler.__init__, and the arguments of the session.
Init ==
    /\ pc = "seeding"
    /\ max_pages \in 0..MaxPages
    /\ Constructed
    /\ CrawlerRunAlone
    /\ FetcherInit
    /\ SideInit

(***************************************************************************)
(* Sitemap reader and link extractor                                       *)
(***************************************************************************)

\* The URLs process_sitemap keeps of the loc texts of a sitemap.
SitemapKeeps(locs) == {url \in locs : url # "" /\ Eligible(url)}

\* clean_url, had the query and the fragment been kept.
CleanUrl_Keeps(full_url) == full_url

\* clean_url of extract_links_from_html: the URL without query and fragment.
CleanUrl(full_url) ==
    LET parsed == urlparse(full_url)
    IN  urlunparse([parsed EXCEPT !.query = "", !.fragment = ""])

\* The links extract_links_from_html finds in a page that parses, before it
\* asks whether they are crawled already.
PageLinks(hrefs, base) ==
    LET cleaned == {CleanUrl(urljoin(base, href)) : href \in {h \in hrefs : h # ""}}
    IN  {clean_url \in cleaned : Eligible(clean_url)}

\* Every URL a session of the model can meet: the homepage, the sitemap
\* entries, and the links of the pages resolved against any of them.
Universe ==
    LET seeds  == {base_url} \cup UNION SitemapDocs
        hrefs  == UNION HtmlDocs
        linked == {CleanUrl(urljoin(base, href)) : base \in seeds, href \in hrefs}
    IN  seeds \cup linked

\* The same for the sessions of the other domains, which crawl the homepage alone.
DomainUniverse ==
    LET homes  == {HomepageOf(d) : d \in Domains}
        linked == {CleanUrl(urljoin(base, href)) : base \in homes, href \in UNION HomepageDocs}
    IN  homes \cup UNION DomainSitemapDocs \cup linked

\* A page of eleven anchors, one more than a batch holds.
WideDoc == {"/xa", "/xb", "/xc", "/xd", "/xe", "/xf", "/xg", "/xh", "/xi", "/xj", "/xk"}

\* The links of the page, wherever on the site it stands.
WidePageLinks == PageLinks(WideDoc, base_url)

\* PageLinks and score_url, computed once for the URLs of the model.
PageLinksOf == [hrefs \in HtmlDocs, base \in Universe |-> PageLinks(hrefs, base)]

ScoreOf == [url \in Universe \cup DomainUniverse \cup WidePageLinks |-> score_url(url)]

\* StrLess, computed once for the URLs of the model.
UrlLess ==
    [a \in Universe \cup DomainUniverse \cup WidePageLinks,
     b \in Universe \cup DomainUniverse \cup WidePageLinks |-> StrLess(a, b)]

\* The links of a page, had those of the Crawled Set been left among them.
extract_links_from_html_All(hrefs, base) == PageLinksOf[hrefs, base]

\* extract_links_from_html(html_content, base_url), for a page that parses.
extract_links_from_html(hrefs, base) ==
    {clean_url \in PageLinksOf[hrefs, base] : clean_url \notin crawled_urls}

(***************************************************************************)
(* SEEDING                                                                 *)
(***************************************************************************)

\* The frontier, had the sitemap URLs been put on it too.
SeedFrontier_WithSitemaps(sitemap) == {base_url} \cup sitemap

\* The frontier the crawl starts from.
SeedFrontier(sitemap) == {base_url}

\* Steps 1 and 2 of run_complete_crawl up to the while loop.
Seed ==
    /\ pc = "seeding"
    /\ \E locs \in SitemapDocs :
        /\ sitemap_locs' = locs
        /\ sitemap_urls' = SitemapKeeps(locs)
        /\ found_urls' = (found_urls \cup SitemapKeeps(locs)) \cup {base_url}
        /\ to_crawl' = SeedFrontier(SitemapKeeps(locs))
    /\ pc' = "loop"
    /\ UNCHANGED << call_vars, fetch_vars, loop_vars, side_vars >>
    /\ UNCHANGED << max_pages, crawled_urls, policy_urls, current_batch, task, results,
                    returned, iterations, fetch_count, starved >>

(***************************************************************************)
(* CRAWLING                                                                *)
(***************************************************************************)

\* The while condition with "or" for "and".
LoopContinues_Or == to_crawl # {} \/ Cardinality(crawled_urls) < max_pages

\* The while condition without the budget.
LoopContinues_NoBudget == to_crawl # {}

\* The condition of the while loop.
LoopContinues == to_crawl # {} /\ Cardinality(crawled_urls) < max_pages

\* The batch, had the slice [:10] been left out.
Batches_Whole == {to_crawl}

\* list(to_crawl)[:10]: the first ten URLs of the frontier, in the order the
\* set iterates, which is any order.
Batches == {B \in SUBSET to_crawl : Cardinality(B) = Min(BatchSize, Cardinality(to_crawl))}

\* The frontier, had the batch been left on it.
Remaining_KeepsBatch(B) == to_crawl

\* to_crawl - set(current_batch)
Remaining(B) == to_crawl \ B

\* What gather holds for a task: a set of links, or an exception.
SetResult(links) == [is_set |-> TRUE, links |-> links]

ExceptionResult == [is_set |-> FALSE, links |-> {}]

\* The loop takes a batch and creates one crawl_page task for each of its URLs.
TakeBatch ==
    /\ pc = "loop"
    /\ LoopContinues
    /\ \E B \in Batches :
        /\ current_batch' = B
        /\ to_crawl' = Remaining(B)
        /\ task' = [url \in B |-> "pending"]
        /\ results' = [url \in B |-> SetResult({})]
    /\ unparsed' = {}
    /\ iterations' = Min(iterations + 1, IterationCap)
    /\ pc' = "gather"
    /\ UNCHANGED << call_vars, fetch_vars, batch_delay, side_vars >>
    /\ UNCHANGED << max_pages, found_urls, crawled_urls, policy_urls, returned,
                    sitemap_urls, sitemap_locs, fetch_count, starved >>

\* The loop ends: the frontier is empty or the budget is used up.
ExitLoop ==
    /\ pc = "loop"
    /\ ~LoopContinues
    /\ pc' = "scoring"
    /\ UNCHANGED << call_vars, fetch_vars, loop_vars, side_vars >>
    /\ UNCHANGED << max_pages, found_urls, crawled_urls, policy_urls, to_crawl,
                    current_batch, task, results, returned, sitemap_urls, sitemap_locs,
                    iterations, fetch_count, starved >>

\* The early return with ">" for ">=".
CrawlPageSkips_OffByOne(url) ==
    url \in crawled_urls \/ Cardinality(crawled_urls) > max_pages

\* The early return without the budget.
CrawlPageSkips_NoBudget(url) == url \in crawled_urls

\* The early return of crawl_page.
CrawlPageSkips(url) ==
    url \in crawled_urls \/ Cardinality(crawled_urls) >= max_pages

\* crawl_page, had it not recorded the URL.
MarkCrawled_Forgets(url) == crawled_urls

\* self.crawled_urls.add(url)
MarkCrawled(url) == crawled_urls \cup {url}

\* The fetches issued for url so far.
Fetches(url) == IF url \in DOMAIN fetch_count THEN fetch_count[url] ELSE 0

\* crawl_page returns set() at once.
CrawlPageSkip ==
    \E url \in current_batch :
    /\ pc = "gather"
    /\ task[url] = "pending"
    /\ CrawlPageSkips(url)
    /\ task' = [task EXCEPT ![url] = "done"]
    /\ results' = [results EXCEPT ![url] = SetResult({})]
    /\ UNCHANGED << call_vars, fetch_vars, loop_vars, side_vars >>
    /\ UNCHANGED << pc, max_pages, found_urls, crawled_urls, policy_urls, to_crawl,
                    current_batch, returned, sitemap_urls, sitemap_locs, iterations,
                    fetch_count, starved >>

\* crawl_page marks the URL crawled and suspends in fetch_url.
CrawlPageFetch ==
    \E url \in current_batch :
    /\ pc = "gather"
    /\ task[url] = "pending"
    /\ ~CrawlPageSkips(url)
    /\ crawled_urls' = MarkCrawled(url)
    /\ task' = [task EXCEPT ![url] = "fetching"]
    /\ fetch_count' = [u \in DOMAIN fetch_count \cup {url} |->
                          IF u = url THEN Min(Fetches(url) + 1, FetchCap) ELSE fetch_count[u]]
    /\ UNCHANGED << call_vars, fetch_vars, loop_vars, side_vars >>
    /\ UNCHANGED << pc, max_pages, found_urls, policy_urls, to_crawl, current_batch,
                    results, returned, sitemap_urls, sitemap_locs, iterations, starved >>

\* A suspended crawl_page resumes with what it returns.
Resume(url, result) ==
    /\ pc = "gather"
    /\ url \in current_batch
    /\ task[url] = "fetching"
    /\ task' = [task EXCEPT ![url] = "done"]
    /\ results' = [results EXCEPT ![url] = result]
    /\ starved' = (starved \/ result.links \ found_urls = {})
    /\ UNCHANGED << call_vars, fetch_vars, loop_vars, side_vars >>
    /\ UNCHANGED << pc, max_pages, found_urls, crawled_urls, policy_urls, to_crawl,
                    current_batch, returned, sitemap_urls, sitemap_locs, iterations,
                    fetch_count >>

\* fetch_url returns the text of a page: crawl_page returns its links.
FetchPage ==
    \E url \in current_batch, hrefs \in HtmlDocs :
        Resume(url, SetResult(extract_links_from_html(hrefs, url)))

\* fetch_url returns None: crawl_page returns set().
FetchAbsent == \E url \in current_batch : Resume(url, SetResult({}))

\* The except clause of extract_links_from_html, had it caught nothing.
ExtractCatches_Nothing(exception) == FALSE

\* except Exception in extract_links_from_html: it catches the errors of the
\* parser.
ExtractCatches(exception) == exception \in {"ParserError"}

\* What crawl_page returns when html.fromstring raises on the text of the
\* page: extract_links_from_html returns the links it has, none, or the
\* error leaves the task.
UnparsedResult == IF ExtractCatches("ParserError") THEN SetResult({}) ELSE ExceptionResult

\* fetch_url returns a text that lxml cannot parse.
FetchMalformed ==
    \E url \in current_batch :
    /\ pc = "gather"
    /\ task[url] = "fetching"
    /\ task' = [task EXCEPT ![url] = "done"]
    /\ results' = [results EXCEPT ![url] = UnparsedResult]
    /\ starved' = TRUE
    /\ unparsed' = unparsed \cup {url}
    /\ UNCHANGED << call_vars, fetch_vars, batch_delay, side_vars >>
    /\ UNCHANGED << pc, max_pages, found_urls, crawled_urls, policy_urls, to_crawl,
                    current_batch, returned, sitemap_urls, sitemap_locs, iterations,
                    fetch_count >>

\* The task ends with an exception, which gather returns in its place.
FetchRaises == \E url \in current_batch : Resume(url, ExceptionResult)

\* result - self.found_urls
NewLinks(result, found) == result \ found

\* The loop over the results, had it not recorded the new links as found.
Discover_Forgets(found, new_links) == found

\* self.found_urls.update(new_links)
Discover(found, new_links) == found \cup new_links

RECURSIVE CollectLinks(_, _, _)
\* The loop over the results of the batch: found_urls and to_crawl after it.
CollectLinks(todo, found, frontier) ==
    IF todo = {} THEN [found |-> found, frontier |-> frontier]
    ELSE LET url       == CHOOSE u \in todo : TRUE
             new_links == IF results[url].is_set THEN NewLinks(results[url].links, found)
                          ELSE {}
         IN  CollectLinks(todo \ {url}, Discover(found, new_links), frontier \cup new_links)

\* gather, had it been called without return_exceptions: it raises the
\* exception of a task.
GatherRaises_Exception(rs) == \E url \in DOMAIN rs : ~rs[url].is_set

\* asyncio.gather(*tasks, return_exceptions=True) raises nothing: the exception
\* of a task is returned in the place of its result.
GatherRaises(rs) == FALSE

\* gather returns when every task of the batch is done; the new links are
\* collected.  An exception gather raised would leave run_complete_crawl and
\* find_policy_links, which catch nothing.
Collect ==
    /\ pc = "gather"
    /\ \A url \in current_batch : task[url] = "done"
    /\ IF GatherRaises(results)
       THEN /\ pc' = "fault"
            /\ UNCHANGED << found_urls, to_crawl >>
       ELSE /\ LET after == CollectLinks(current_batch, found_urls, to_crawl)
               IN  /\ found_urls' = after.found
                   /\ to_crawl' = after.frontier
            /\ pc' = "delay"
    /\ UNCHANGED << call_vars, fetch_vars, loop_vars, side_vars >>
    /\ UNCHANGED << max_pages, crawled_urls, policy_urls, current_batch, task, results,
                    returned, sitemap_urls, sitemap_locs, iterations, fetch_count, starved >>

\* The delay of the loop when the fetcher holds none for the domain.
DefaultBatchDelay == 3

\* The delay of the loop, had it not looked at the delays of the fetcher.
BaseDelay_Fixed(d) == DefaultBatchDelay

\* base_delay = self.request_delays.get(self.domain, 3.0)
BaseDelay(d) == IF d \in DOMAIN request_delays THEN request_delays[d] ELSE DefaultBatchDelay

\* asyncio.sleep(base_delay) between two batches; batch_delay keeps the
\* length of the sleep.
Delay ==
    /\ pc = "delay"
    /\ batch_delay' = BaseDelay(target)
    /\ pc' = "loop"
    /\ UNCHANGED << call_vars, unparsed, side_vars >>
    /\ UNCHANGED << now, request_delays, last_request_time, fpc, fetch_arg, gets, slept,
                    responses, outcome, calls, backoffs >>
    /\ UNCHANGED << max_pages, found_urls, crawled_urls, policy_urls, to_crawl,
                    current_batch, task, results, returned, sitemap_urls, sitemap_locs,
                    iterations, fetch_count, starved >>

(***************************************************************************)
(* SCORING                                                                 *)
(***************************************************************************)

\* The sort key without the URL.
KeyLess_ScoreOnly(a, b) == -a[1] < -b[1]

\* (-score, url) of a comes before (-score, url) of b.
KeyLess(a, b) == -a[1] < -b[1] \/ (a[1] = b[1] /\ UrlLess[a[2], b[2]])

\* In a stable sort, entry j of the list ends before entry i: its key is
\* smaller, or the keys are equal and it stood before.
SortsBefore(list, j, i) ==
    \/ KeyLess(list[j], list[i])
    \/ ~KeyLess(list[i], list[j]) /\ j < i

\* list.sort(key=lambda x: (-x[0], x[1])): a stable sort.  Each entry goes
\* to the place after the entries that sort before it.
Sort(list) ==
    LET place(i) == 1 + Cardinality({j \in 1..Len(list) : SortsBefore(list, j, i)})
    IN  [k \in 1..Len(list) |-> list[CHOOSE i \in 1..Len(list) : place(i) = k]]

RECURSIVE Orders(_)
\* The orders in which a for loop may iterate over a set.
Orders(S) ==
    IF S = {} THEN { << >> }
    ELSE UNION { { << x >> \o rest : rest \in Orders(S \ {x}) } : x \in S }

\* The entries step 3 appends for the URLs of positive score, iterated in order.
Scored(order) == [i \in 1..Len(order) |-> << ScoreOf[order[i]], order[i] >>]

\* Step 3 of run_complete_crawl and its return.
Score ==
    /\ pc = "scoring"
    /\ \E order \in Orders({url \in found_urls : ScoreOf[url] > 0}) :
        /\ policy_urls' = Sort(policy_urls \o Scored(order))
        /\ returned' = [i \in 1..Len(policy_urls') |-> policy_urls'[i][2]]
    /\ pc' = "done"
    /\ UNCHANGED << call_vars, fetch_vars, loop_vars, side_vars >>
    /\ UNCHANGED << max_pages, found_urls, crawled_urls, to_crawl, current_batch, task,
                    results, sitemap_urls, sitemap_locs, iterations, fetch_count, starved >>

Next ==
    \/ Seed
    \/ TakeBatch
    \/ ExitLoop
    \/ CrawlPageSkip
    \/ CrawlPageFetch
    \/ FetchPage
    \/ FetchAbsent
    \/ FetchMalformed
    \/ FetchRaises
    \/ Collect
    \/ Delay
    \/ Score

Spec == Init /\ [][Next]_vars

\* The event loop runs a task that can run, and every fetch returns.
LiveSpec == Spec /\ WF_vars(Next)

(***************************************************************************)
(* find_policy_links: the session of a crawler of any domain, with a page  *)
(* budget that ends the crawl at the homepage                              *)
(***************************************************************************)

\* CompleteCrawler.base_url of the crawler of the call.
Homepage == HomepageOf(target)

\* The three-way test and the links of the homepage, computed once.
EligibleOf == [d \in Domains, url \in DomainUniverse |-> EligibleFor(d, url)]

HomepageLinksOf ==
    [d \in Domains, hrefs \in HomepageDocs |->
        LET cleaned == {CleanUrl(urljoin(HomepageOf(d), href)) : href \in {h \in hrefs : h # ""}}
        IN  {clean_url \in cleaned : EligibleOf[d, clean_url]}]

\* The URLs process_sitemap keeps of the loc texts, in the crawler of domain d.
DomainKeeps(d, locs) == {url \in locs : url # "" /\ EligibleOf[d, url]}

\* find_policy_links(domain, limit, max_pages) constructs its crawler.
CallInit ==
    /\ pc = "seeding"
    /\ max_pages \in HomepageBudgets
    /\ Constructed
    /\ target \in Domains
    /\ limit \in 0..MaxLimit
    /\ policy_links = << >>
    /\ runs = 1
    /\ fetch_log = NoFetches
    /\ previous = NoRun
    /\ FetcherInit
    /\ SideInit

\* Steps 1 and 2 of run_complete_crawl up to the while loop: the sitemaps are
\* unfetchable, or they list the loc texts of a document.
SeedDomain ==
    /\ pc = "seeding"
    /\ \E fetched \in BOOLEAN, locs \in DomainSitemapDocs :
        /\ ~fetched => locs = {}
        /\ sitemap_locs' = locs
        /\ sitemap_urls' = DomainKeeps(target, locs)
        /\ found_urls' = (found_urls \cup DomainKeeps(target, locs)) \cup {Homepage}
        /\ fetch_log' = [fetch_log EXCEPT !.sitemaps = IF fetched THEN "fetched" ELSE "failed"]
    /\ to_crawl' = {Homepage}
    /\ pc' = "loop"
    /\ UNCHANGED << max_pages, crawled_urls, policy_urls, current_batch, task, results,
                    returned, iterations, fetch_count, starved >>
    /\ UNCHANGED << target, limit, policy_links, runs, previous, fetch_vars, loop_vars, side_vars >>

\* What crawl_page(base_url) comes to when it fetches: the links of the page
\* fetch_url returned, or nothing when it returned None or the task raised.
HomepageOutcomes ==
    {[log |-> "fetched", result |-> SetResult(HomepageLinksOf[target, hrefs] \ {Homepage})] :
        hrefs \in HomepageDocs}
    \cup {[log |-> "failed", result |-> SetResult({})],
          [log |-> "failed", result |-> ExceptionResult]}

\* An iteration of the while loop on the frontier {base_url}: the batch, the
\* one crawl_page task, the new links, the delay.
CrawlHomepage ==
    /\ pc = "loop"
    /\ LoopContinues
    /\ to_crawl = {Homepage}
    /\ ~CrawlPageSkips(Homepage)
    /\ \E page \in HomepageOutcomes :
        LET new_links == IF page.result.is_set THEN NewLinks(page.result.links, found_urls)
                         ELSE {}
        IN  /\ results' = [url \in {Homepage} |-> page.result]
            /\ found_urls' = Discover(found_urls, new_links)
            /\ to_crawl' = Remaining({Homepage}) \cup new_links
            /\ starved' = (starved \/ new_links = {})
            /\ fetch_log' = [fetch_log EXCEPT !.homepage = page.log]
    /\ current_batch' = {Homepage}
    /\ task' = [url \in {Homepage} |-> "done"]
    /\ crawled_urls' = MarkCrawled(Homepage)
    /\ fetch_count' = [u \in DOMAIN fetch_count \cup {Homepage} |->
                          IF u = Homepage THEN Min(Fetches(Homepage) + 1, FetchCap)
                          ELSE fetch_count[u]]
    /\ iterations' = Min(iterations + 1, IterationCap)
    /\ pc' = IF GatherRaises(results') THEN "fault" ELSE "loop"
    /\ batch_delay' = IF GatherRaises(results') THEN batch_delay ELSE BaseDelay(target)
    /\ UNCHANGED << max_pages, policy_urls, returned, sitemap_urls, sitemap_locs >>
    /\ UNCHANGED << target, limit, policy_links, runs, previous, fetch_vars, unparsed,
                    side_vars >>

\* all_policy_links[:limit], had the list been returned whole.
Prefix_Whole(list, n) == list

\* list[:n]
Prefix(list, n) ==
    IF n >= 0 THEN SubSeq(list, 1, Min(n, Len(list)))
    ELSE SubSeq(list, 1, Max(0, Len(list) + n))

\* find_policy_links returns the first limit entries of what its crawler returned.
Truncate ==
    /\ pc = "done"
    /\ runs = 1
    /\ policy_links' = Prefix(returned, limit)
    /\ pc' = "caller"
    /\ UNCHANGED << max_pages, found_urls, crawled_urls, policy_urls, to_crawl,
                    current_batch, task, results, returned, sitemap_urls, sitemap_locs,
                    iterations, fetch_count, starved >>
    /\ UNCHANGED << target, limit, runs, fetch_log, previous, fetch_vars, loop_vars, side_vars >>

\* run_complete_crawl is called once more on the crawler, which keeps its
\* found_urls, crawled_urls and policy_urls.
Rerun ==
    /\ pc = "done"
    /\ runs < RunCap
    /\ runs' = runs + 1
    /\ previous' = [found |-> found_urls, returned |-> returned]
    /\ fetch_log' = NoFetches
    /\ pc' = "seeding"
    /\ UNCHANGED << max_pages, found_urls, crawled_urls, policy_urls, to_crawl,
                    current_batch, task, results, returned, sitemap_urls, sitemap_locs,
                    iterations, fetch_count, starved >>
    /\ UNCHANGED << target, limit, policy_links, fetch_vars, loop_vars, side_vars >>

CallNext ==
    \/ SeedDomain
    \/ CrawlHomepage
    \/ ExitLoop
    \/ Score
    \/ Truncate
    \/ Rerun

CallSpec == CallInit /\ [][CallNext]_vars

(***************************************************************************)
(* fetch_url: the calls of one crawler, one after the other                *)
(***************************************************************************)

\* Largest number of fetch_url calls of the model.
CallCap == 5

\* The URLs fetch_url is called with.
FetchUrls == {"https://x.io", "https://x.io/faq"}

\* domain = urlparse(url).netloc
\* The url argument of fetch_url, for the pages of two hosts: the domain and
\* a subdomain, which is_same_domain accepts.
HostUrls == {"https://x.io/faq", "https://help.x.io/faq"}

NetlocOf == [url \in FetchUrls \cup HostUrls \cup {robots_url} |-> urlparse(url).netloc]

\* The values a server gives the Retry-After header: empty, seconds, a date.
RetryAfterValues == {"", "3", "10", "Wed, 21 Oct 2015 07:28:00 GMT"}

\* The time a GET request takes.
Latencies == {0, 1}

Digits == "0123456789"

\* int(s) succeeds, for the strings of the model: s is a string of digits.
IsInt(s) == s # "" /\ \A i \in 1..Len(s) : PosIn(CharAt(s, i), Digits) # 0

RECURSIVE IntOf(_)
\* int(s) of a string of digits.
IntOf(s) ==
    IF s = "" THEN 0
    ELSE 10 * IntOf(SubSeq(s, 1, Len(s) - 1)) + (PosIn(CharAt(s, Len(s)), Digits) - 1)

\* What client.get comes to: an exception of the transport, or a response
\* with a status and, maybe, a Retry-After header.
TransportError == [error |-> TRUE, status |-> 0, has_retry_after |-> FALSE, retry_after |-> ""]

Response(status) ==
    [error |-> FALSE, status |-> status, has_retry_after |-> FALSE, retry_after |-> ""]

ResponseRetryAfter(value) ==
    [error |-> FALSE, status |-> 429, has_retry_after |-> TRUE, retry_after |-> value]

GetOutcomes ==
    {TransportError, Response(200), Response(404), Response(429)}
        \cup {ResponseRetryAfter(value) : value \in RetryAfterValues}

\* self.request_delays.get(domain, 2.0)
DefaultDelay == 2

MinDelay(host) ==
    IF host \in DOMAIN request_delays THEN request_delays[host] ELSE DefaultDelay

\* The floor of the delay a Retry-After header sets, and the ceiling of the backoff.
RetryAfterFloor == 5

BackoffCeiling == 30

\* response.headers.get('Retry-After'), None when the header is missing.
HeaderOf(response) == IF response.has_retry_after THEN response.retry_after ELSE ""

\* if retry_after: the header is there and is not the empty string.
Truthy(retry_after) == retry_after # ""

\* The delay set from the header, had it been taken as it is.
HeaderDelay_NoFloor(delay) == delay

\* max(delay, 5.0)
HeaderDelay(delay) == Max(delay, RetryAfterFloor)

\* The backoff, had the ceiling been left out.
BackoffDelay_NoCeiling(host) == MinDelay(host) * 2

\* delay = self.request_delays.get(domain, 2.0) * 2; delay = min(delay, 30.0)
BackoffDelay(host) == Min(MinDelay(host) * 2, BackoffCeiling)

\* The except clause, had it caught the errors of the transport alone.
ExceptCatches_Transport(exception) == exception = "TransportError"

\* except Exception: it catches the errors of the transport and the
\* ValueError of int().
ExceptCatches(exception) == exception \in {"TransportError", "ValueError"}

\* The time the rate limit makes a call to the host wait before its request.
WaitTime(host) ==
    IF host \in DOMAIN last_request_time
           /\ now - last_request_time[host] < MinDelay(host)
    THEN MinDelay(host) - (now - last_request_time[host])
    ELSE 0

\* d[key] = value on a dict.
\* The assignment, had it set the item of every key.
Put_Every(d, key, value) == [k \in DOMAIN d \cup {key} |-> value]

Put(d, key, value) == [k \in DOMAIN d \cup {key} |-> IF k = key THEN value ELSE d[k]]

\* The 429 responses without Retry-After that set the delay of the host so
\* far; Mixed once a Retry-After header has set it.
Mixed == 0 - 1

BackoffsOf(host) == IF host \in DOMAIN backoffs THEN backoffs[host] ELSE 0

\* fetch_url(client, url) up to its first request: the wait of the rate
\* limit, the time of the request, the GET.
StartFetch(url) ==
    /\ fetch_arg' = url
    /\ now' = now + WaitTime(NetlocOf[url])
    /\ last_request_time' = Put(last_request_time, NetlocOf[url], now')
    /\ gets' = 1
    /\ slept' = << >>
    /\ responses' = << >>
    /\ outcome' = "none"
    /\ calls' = calls + 1
    /\ fpc' = "get"
    /\ UNCHANGED << request_delays, backoffs >>

\* A fetch_url call starts when the one before has returned.
FetchStart ==
    /\ fpc \in {"idle", "returned"}
    /\ calls < CallCap
    /\ \E url \in FetchUrls : StartFetch(url)
    /\ UNCHANGED << crawl_vars, call_vars, loop_vars, side_vars >>

\* The call ends in the try block or in the except clause.
Return(value) ==
    /\ outcome' = value
    /\ fpc' = "returned"

\* An exception is raised in the try block: the except clause catches it and
\* the call returns None, or the exception leaves the call.
Raise(exception) ==
    IF ExceptCatches(exception) THEN Return("absent") ELSE Return("raised")

\* A 429 response set the delay of the host: the call sleeps and requests again.
Backoff(host, header, delay, new_delay) ==
    /\ request_delays' = Put(request_delays, host, new_delay)
    /\ backoffs' = Put(backoffs, host,
                       IF header \/ BackoffsOf(host) = Mixed THEN Mixed
                       ELSE BackoffsOf(host) + 1)
    /\ slept' = Append(slept, delay)
    /\ gets' = gets + 1
    /\ fpc' = "retry"
    /\ UNCHANGED outcome

\* The first GET returns or raises.
FirstResponse ==
    /\ fpc = "get"
    /\ \E response \in GetOutcomes, latency \in Latencies :
        LET host        == NetlocOf[fetch_arg]
            retry_after == HeaderOf(response)
        IN  /\ responses' = Append(responses, response)
            /\ IF response.error
               THEN /\ Raise("TransportError")
                    /\ now' = now + latency
                    /\ UNCHANGED << request_delays, backoffs, slept, gets >>
               ELSE IF response.status = 429 /\ Truthy(retry_after) /\ ~IsInt(retry_after)
               THEN /\ Raise("ValueError")
                    /\ now' = now + latency
                    /\ UNCHANGED << request_delays, backoffs, slept, gets >>
               ELSE IF response.status = 429 /\ Truthy(retry_after)
               THEN /\ Backoff(host, TRUE, IntOf(retry_after), HeaderDelay(IntOf(retry_after)))
                    /\ now' = now + latency + IntOf(retry_after)
               ELSE IF response.status = 429
               THEN /\ Backoff(host, FALSE, BackoffDelay(host), BackoffDelay(host))
                    /\ now' = now + latency + BackoffDelay(host)
               ELSE /\ Return(IF response.status = 200 THEN "text" ELSE "absent")
                    /\ now' = now + latency
                    /\ UNCHANGED << request_delays, backoffs, slept, gets >>
    /\ UNCHANGED << last_request_time, fetch_arg, calls >>
    /\ UNCHANGED << crawl_vars, call_vars, loop_vars, side_vars >>

\* The second GET returns or raises.
RetryResponse ==
    /\ fpc = "retry"
    /\ \E response \in GetOutcomes, latency \in Latencies :
        /\ responses' = Append(responses, response)
        /\ now' = now + latency
        /\ IF response.error THEN Raise("TransportError")
           ELSE Return(IF response.status = 200 THEN "text" ELSE "absent")
    /\ UNCHANGED << request_delays, last_request_time, fetch_arg, gets, slept, calls,
                    backoffs >>
    /\ UNCHANGED << crawl_vars, call_vars, loop_vars, side_vars >>

\* A crawler that fetches and does nothing else.
FetchInit ==
    /\ pc = "seeding"
    /\ max_pages = 0
    /\ Constructed
    /\ CrawlerRunAlone
    /\ FetcherInit
    /\ SideInit

FetchNext ==
    \/ FetchStart
    \/ FirstResponse
    \/ RetryResponse

FetchSpec == FetchInit /\ [][FetchNext]_vars

(***************************************************************************)
(* fetch_url called for the pages of two hosts                             *)
(***************************************************************************)

\* Number of fetch_url calls started.
HostCallCap == 3

\* A fetch_url call for a page of one of the hosts starts when the one
\* before has returned.
HostFetchStart ==
    /\ fpc \in {"idle", "returned"}
    /\ calls < HostCallCap
    /\ \E url \in HostUrls : StartFetch(url)
    /\ UNCHANGED << crawl_vars, call_vars, loop_vars, side_vars >>

HostsNext ==
    \/ HostFetchStart
    \/ FirstResponse
    \/ RetryResponse

HostsSpec == FetchInit /\ [][HostsNext]_vars

(***************************************************************************)
(* A crawl session whose one page, the homepage, is fetched by fetch_url:  *)
(* the 429 responses to the request set the delay that the loop sleeps     *)
(* after the batch                                                         *)
(***************************************************************************)

\* crawl_page marks the homepage crawled and calls fetch_url, which runs up
\* to its first request.
CrawlPageRequests ==
    \E url \in current_batch \cap FetchUrls :
    /\ pc = "gather"
    /\ task[url] = "pending"
    /\ ~CrawlPageSkips(url)
    /\ fpc = "idle"
    /\ crawled_urls' = MarkCrawled(url)
    /\ task' = [task EXCEPT ![url] = "fetching"]
    /\ fetch_count' = [u \in DOMAIN fetch_count \cup {url} |->
                          IF u = url THEN Min(Fetches(url) + 1, FetchCap) ELSE fetch_count[u]]
    /\ StartFetch(url)
    /\ UNCHANGED << call_vars, loop_vars, side_vars >>
    /\ UNCHANGED << pc, max_pages, found_urls, policy_urls, to_crawl, current_batch,
                    results, returned, sitemap_urls, sitemap_locs, iterations, starved >>

\* fetch_url has returned: crawl_page resumes with the text of the page, with
\* None, or with the exception that left fetch_url.
CrawlPageResumes ==
    /\ fpc = "returned"
    /\ \E url \in current_batch :
        /\ fetch_arg = url
        /\ IF outcome = "text"
           THEN \E hrefs \in HtmlDocs :
                    Resume(url, SetResult(extract_links_from_html(hrefs, url)))
           ELSE IF outcome = "absent" THEN Resume(url, SetResult({}))
           ELSE Resume(url, ExceptionResult)

\* A crawler with a budget of one page at most.
PoliteInit ==
    /\ pc = "seeding"
    /\ max_pages \in HomepageBudgets
    /\ Constructed
    /\ CrawlerRunAlone
    /\ FetcherInit
    /\ SideInit

PoliteNext ==
    \/ Seed
    \/ TakeBatch
    \/ ExitLoop
    \/ CrawlPageRequests
    \/ FirstResponse
    \/ RetryResponse
    \/ CrawlPageResumes
    \/ Collect
    \/ Delay
    \/ Score

PoliteSpec == PoliteInit /\ [][PoliteNext]_vars

(***************************************************************************)
(* A crawl session on a site whose pages have eleven links: the frontier   *)
(* holds more URLs than a batch                                            *)
(***************************************************************************)

\* The page budgets of the session: the homepage and one page of the second batch.
WideBudgets == {2}

\* fetch_url returns the text of the page of eleven anchors.
FetchWidePage ==
    \E url \in current_batch : Resume(url, SetResult(WidePageLinks \ crawled_urls))

BatchInit ==
    /\ pc = "seeding"
    /\ max_pages \in WideBudgets
    /\ Constructed
    /\ CrawlerRunAlone
    /\ FetcherInit
    /\ SideInit

BatchNext ==
    \/ Seed
    \/ TakeBatch
    \/ ExitLoop
    \/ CrawlPageSkip
    \/ CrawlPageFetch
    \/ FetchWidePage
    \/ FetchAbsent
    \/ Collect
    \/ Delay
    \/ Score

BatchSpec == BatchInit /\ [][BatchNext]_vars

(***************************************************************************)
(* fetch_sitemap_urls and process_sitemap, request by request: robots.txt  *)
(* through fetch_url, the sitemaps of its directives or of the fallback    *)
(* list, and the sitemaps that a sitemap index refers to                   *)
(***************************************************************************)

\* Number of process_sitemap calls under way at which the interpreter
\* raises RecursionError on one more.
RecursionLimit == 3

\* s.startswith(prefix)
StartsWith(s, prefix) == Len(s) >= Len(prefix) /\ SubSeq(s, 1, Len(prefix)) = prefix

\* s.endswith(suffix)
EndsWith(s, suffix) ==
    Len(s) >= Len(suffix) /\ SubSeq(s, Len(s) - Len(suffix) + 1, Len(s)) = suffix

\* s.strip(), the white space of the model being the space.
Strip(s) ==
    LET inked == {i \in 1..Len(s) : CharAt(s, i) # " "}
    IN  IF inked = {} THEN ""
        ELSE SubSeq(s, CHOOSE i \in inked : \A j \in inked : i <= j,
                       CHOOSE i \in inked : \A j \in inked : i >= j)

RECURSIVE SplitLines(_)
\* text.splitlines()
SplitLines(text) ==
    IF text = "" THEN << >>
    ELSE LET nl == PosIn("\n", text)
         IN  IF nl = 0 THEN << text >>
             ELSE << SubSeq(text, 1, nl - 1) >> \o SplitLines(SubSeq(text, nl + 1, Len(text)))

\* line.split(':', 1)[1]
AfterColon(line) == SubSeq(line, PosIn(":", line) + 1, Len(line))

\* line.lower().startswith('sitemap:')
IsDirective(line) == StartsWith(Lower(line), "sitemap:")

\* The list sitemap_urls after the loop over the lines of robots.txt.
Directives(content) ==
    LET lines == SelectSeq(SplitLines(content), IsDirective)
    IN  [i \in 1..Len(lines) |-> Strip(AfterColon(lines[i]))]

\* The fallback sitemap locations.
Fallback ==
    << base_url \o "/sitemap.xml", base_url \o "/sitemap_index.xml",
       base_url \o "/sitemap.xml.gz" >>

\* The list, had the fallback locations been added to the directives.
SitemapList_WithFallback(content) == Directives(content) \o Fallback

\* The list the for loop walks: the directives, and the fallback locations
\* when there is none.  robots_content is None or "" when there is no text.
SitemapList(content) ==
    IF content # "" /\ Directives(content) # << >> THEN Directives(content) ELSE Fallback

\* The texts robots.txt is served with.
RobotsTexts ==
    { "",
      "User-agent: x\nDisallow: /cart",
      " Sitemap: https://x.io/sitemap.xml\nAllow: /",
      "sitemap: https://x.io/sitemap.xml\n",
      "User-agent: x\nSitemap: https://x.io/sitemap-pages.xml\nSITEMAP:https://x.io/sitemap.xml.gz \nDisallow: /cart" }

SitemapXml == "https://x.io/sitemap.xml"

SitemapIndexXml == "https://x.io/sitemap_index.xml"

SitemapXmlGz == "https://x.io/sitemap.xml.gz"

SitemapPagesXml == "https://x.io/sitemap-pages.xml"

\* The sitemap documents of the site: the loc texts of the url elements and
\* of the sitemap elements.  sitemap.xml refers to itself, and sitemap.xml
\* and sitemap_index.xml refer to each other.
SitemapFiles ==
    (SitemapXml :>
        [pages |-> {}, sitemaps |-> << SitemapPagesXml, SitemapXml, SitemapIndexXml >>])
    @@ (SitemapIndexXml :> [pages |-> {}, sitemaps |-> << " https://x.io/sitemap.xml " >>])
    @@ (SitemapXmlGz :>
        [pages |-> {"https://x.io/returns", "https://x.io/en-gb/returns"}, sitemaps |-> << >>])
    @@ (SitemapPagesXml :>
        [pages |-> {" https://x.io/faq ", "https://x.io/fr/faq"}, sitemaps |-> << >>])

\* The bodies the site answers a sitemap request with: the document of the
\* URL or something that is not XML, as it is or as a gzip stream.
Bodies(url) ==
    IF url \in DOMAIN SitemapFiles
    THEN {[gzipped |-> g, well_formed |-> w] : g \in BOOLEAN, w \in BOOLEAN}
    ELSE {}

NoBody == [gzipped |-> FALSE, well_formed |-> FALSE]

\* What client.get(sitemap_url) comes to: an exception of the transport, a
\* status other than 200, or a body.
SitemapOutcomes(url) ==
    {[kind |-> "error", body |-> NoBody], [kind |-> "status", body |-> NoBody]}
        \cup {[kind |-> "ok", body |-> body] : body \in Bodies(url)}

\* gzip.decompress is attempted on the content, and raises.
DecompressFails(url, body) == EndsWith(url, ".gz") /\ ~body.gzipped

\* The content after the gzip block: decompressed, or as it was received when
\* the URL does not end in .gz or gzip.decompress raised.
Content(url, body) ==
    IF EndsWith(url, ".gz") /\ body.gzipped THEN [body EXCEPT !.gzipped = FALSE] ELSE body

\* etree.fromstring(content) returns a tree.
Parses(content) == ~content.gzipped /\ content.well_formed

\* The texts of //loc: those of the url elements and those of the sitemap elements.
LocTexts(doc) == doc.pages \cup {doc.sitemaps[i] : i \in 1..Len(doc.sitemaps)}

\* The URLs the first loop of process_sitemap adds to urls.
Kept(doc) == SitemapKeeps({Strip(loc) : loc \in LocTexts(doc)})

\* Kept, computed once for the documents of the site.
KeptOf == [url \in DOMAIN SitemapFiles |-> Kept(SitemapFiles[url])]

\* The except clause of process_sitemap, had it caught nothing.
SitemapCatches_Nothing(exception) == FALSE

\* except Exception in process_sitemap.
SitemapCatches(exception) ==
    exception \in {"TransportError", "XMLSyntaxError", "RecursionError"}

Frame(url) == [url |-> url, phase |-> "get", todo |-> << >>]

Top == stack[Len(stack)]

Pop == SubSeq(stack, 1, Len(stack) - 1)

\* An exception is raised in the innermost process_sitemap call: its except
\* clause catches it and the call returns, or the exception leaves every
\* call under way and fetch_sitemap_urls.
SitemapRaises(exception) ==
    IF SitemapCatches(exception)
    THEN stack' = Pop /\ UNCHANGED rpc
    ELSE stack' = << >> /\ rpc' = "fault"

\* fetch_sitemap_urls calls fetch_url on robots.txt.
RequestRobots ==
    /\ rpc = "start"
    /\ fpc = "idle"
    /\ StartFetch(robots_url)
    /\ requests' = requests \cup {[url |-> robots_url, via |-> "fetch_url"]}
    /\ rpc' = "robots"
    /\ UNCHANGED << robots, robots_content, sitemap_list, next_top, top_calls, stack, urls,
                    last, parsed_top, failed, overflowed >>
    /\ UNCHANGED << crawl_vars, call_vars, loop_vars, race_vars, rank_vars, score_vars >>

\* fetch_url has returned the text of robots.txt or None: the list of the
\* sitemaps is made.
ReadRobots ==
    /\ rpc = "robots"
    /\ fpc = "returned"
    /\ \E content \in IF outcome = "text" THEN RobotsTexts ELSE {""} :
        /\ robots_content' = content
        /\ sitemap_list' = SitemapList(content)
    /\ robots' = IF outcome = "text" THEN "fetched" ELSE "absent"
    /\ rpc' = IF outcome = "raised" THEN "fault" ELSE "sitemaps"
    /\ fpc' = "idle"
    /\ fetch_arg' = ""
    /\ gets' = 0
    /\ slept' = << >>
    /\ responses' = << >>
    /\ outcome' = "none"
    /\ UNCHANGED << now, request_delays, last_request_time, calls, backoffs >>
    /\ UNCHANGED << next_top, top_calls, stack, urls, requests, last, parsed_top, failed,
                    overflowed >>
    /\ UNCHANGED << crawl_vars, call_vars, loop_vars, race_vars, rank_vars, score_vars >>

\* The for loop calls process_sitemap with the next entry of the list.
ProcessNext ==
    /\ rpc = "sitemaps"
    /\ stack = << >>
    /\ next_top <= Len(sitemap_list)
    /\ stack' = << Frame(sitemap_list[next_top]) >>
    /\ top_calls' = Append(top_calls, sitemap_list[next_top])
    /\ next_top' = next_top + 1
    /\ UNCHANGED << rpc, robots, robots_content, sitemap_list, urls, requests, last, parsed_top,
                    failed, overflowed >>
    /\ UNCHANGED << crawl_vars, call_vars, fetch_vars, loop_vars, race_vars, rank_vars, score_vars >>

\* client.get(sitemap_url) of the innermost call returns or raises; the call
\* returns, or parses the document, adds its URLs and turns to the sitemaps
\* the document refers to.
SitemapResponse ==
    /\ rpc = "sitemaps"
    /\ stack # << >>
    /\ Top.phase = "get"
    /\ \E response \in SitemapOutcomes(Top.url) :
        LET content    == Content(Top.url, response.body)
            decompress == IF ~EndsWith(Top.url, ".gz") \/ response.kind # "ok" THEN "none"
                          ELSE IF DecompressFails(Top.url, response.body) THEN "failed"
                          ELSE "done"
        IN  IF response.kind = "error"
            THEN /\ SitemapRaises("TransportError")
                 /\ last' = [url |-> Top.url, result |-> "error", decompress |-> decompress,
                             kept |-> {}]
                 /\ failed' = failed \cup {Top.url}
                 /\ UNCHANGED << urls, parsed_top >>
            ELSE IF response.kind = "status"
            THEN /\ stack' = Pop
                 /\ last' = [url |-> Top.url, result |-> "status", decompress |-> decompress,
                             kept |-> {}]
                 /\ failed' = failed \cup {Top.url}
                 /\ UNCHANGED << rpc, urls, parsed_top >>
            ELSE IF ~Parses(content)
            THEN /\ SitemapRaises("XMLSyntaxError")
                 /\ last' = [url |-> Top.url, result |-> "unparsed", decompress |-> decompress,
                             kept |-> {}]
                 /\ failed' = failed \cup {Top.url}
                 /\ UNCHANGED << urls, parsed_top >>
            ELSE /\ urls' = urls \cup KeptOf[Top.url]
                 /\ stack' = [stack EXCEPT ![Len(stack)] =
                                 [url |-> Top.url, phase |-> "nested",
                                  todo |-> SitemapFiles[Top.url].sitemaps]]
                 /\ last' = [url |-> Top.url, result |-> "parsed", decompress |-> decompress,
                             kept |-> KeptOf[Top.url]]
                 /\ parsed_top' = IF Len(stack) = 1 THEN parsed_top \cup {Top.url} ELSE parsed_top
                 /\ UNCHANGED << rpc, failed >>
    /\ requests' = requests \cup {[url |-> Top.url, via |-> "client.get"]}
    /\ UNCHANGED << robots, robots_content, sitemap_list, next_top, top_calls, overflowed >>
    /\ UNCHANGED << crawl_vars, call_vars, fetch_vars, loop_vars, race_vars, rank_vars, score_vars >>

\* The second loop of the innermost call comes to its next loc text: it
\* passes over an empty text and over the URL of its own sitemap, and calls
\* process_sitemap with any other, which the interpreter refuses when the
\* calls under way have reached its limit.
Recurse ==
    /\ rpc = "sitemaps"
    /\ stack # << >>
    /\ Top.phase = "nested"
    /\ Top.todo # << >>
    /\ LET nested_url == Strip(Head(Top.todo))
           rest       == [stack EXCEPT ![Len(stack)].todo = Tail(Top.todo)]
       IN  IF nested_url = "" \/ nested_url = Top.url
           THEN stack' = rest /\ UNCHANGED << rpc, overflowed >>
           ELSE IF Len(stack) >= RecursionLimit
           THEN SitemapRaises("RecursionError") /\ overflowed' = TRUE
           ELSE stack' = Append(rest, Frame(nested_url)) /\ UNCHANGED << rpc, overflowed >>
    /\ UNCHANGED << robots, robots_content, sitemap_list, next_top, top_calls, urls,
                    requests, last, parsed_top, failed >>
    /\ UNCHANGED << crawl_vars, call_vars, fetch_vars, loop_vars, race_vars, rank_vars, score_vars >>

\* The innermost call has walked its loc texts and returns.
SitemapReturns ==
    /\ rpc = "sitemaps"
    /\ stack # << >>
    /\ Top.phase = "nested"
    /\ Top.todo = << >>
    /\ stack' = Pop
    /\ UNCHANGED << rpc, robots, robots_content, sitemap_list, next_top, top_calls, urls,
                    requests, last, parsed_top, failed, overflowed >>
    /\ UNCHANGED << crawl_vars, call_vars, fetch_vars, loop_vars, race_vars, rank_vars, score_vars >>

\* The for loop is over: fetch_sitemap_urls returns urls.
ReaderReturns ==
    /\ rpc = "sitemaps"
    /\ stack = << >>
    /\ next_top > Len(sitemap_list)
    /\ rpc' = "done"
    /\ UNCHANGED << robots, robots_content, sitemap_list, next_top, top_calls, stack, urls,
                    requests, last, parsed_top, failed, overflowed >>
    /\ UNCHANGED << crawl_vars, call_vars, fetch_vars, loop_vars, race_vars, rank_vars, score_vars >>

\* A crawler whose session is at its first step.
ReaderSpecInit ==
    /\ pc = "seeding"
    /\ max_pages = 0
    /\ Constructed
    /\ CrawlerRunAlone
    /\ FetcherInit
    /\ SideInit

ReaderNext ==
    \/ RequestRobots
    \/ FirstResponse
    \/ RetryResponse
    \/ ReadRobots
    \/ ProcessNext
    \/ SitemapResponse
    \/ Recurse
    \/ SitemapReturns
    \/ ReaderReturns

ReaderSpec == ReaderSpecInit /\ [][ReaderNext]_vars

(***************************************************************************)
(* The fetch_url calls of the crawl_page tasks of one batch, all to the    *)
(* host of the crawler, on the one event loop: a call runs from one await  *)
(* to the next without another call running in between                     *)
(***************************************************************************)

\* Number of crawl_page tasks of the batch.
NumCallers == 3

\* The time the clock of the model stops at.
TimeCap == 6

Callers == 1..NumCallers

\* asyncio.sleep(delay) of a call is over.
TimerDue(c) == callers[c].phase \in {"waiting", "backoff"} /\ callers[c].wake <= now

\* self.last_request_time[domain] = time.time(), and the call suspends in
\* client.get.
IssueGet(c) ==
    /\ last_request_time' = Put(last_request_time, domain, now)
    /\ callers' = [callers EXCEPT ![c] = [phase |-> "get", wake |-> 0]]
    /\ get_log' = get_log \cup {[caller |-> c, at |-> now, retry |-> FALSE]}

\* A task calls fetch_url: the call reads the time of the last request to
\* the host and suspends in asyncio.sleep, or goes on to its request.
CallerStarts ==
    \E c \in Callers :
    /\ callers[c].phase = "new"
    /\ IF WaitTime(domain) > 0
       THEN /\ callers' = [callers EXCEPT ![c] =
                              [phase |-> "waiting", wake |-> now + WaitTime(domain)]]
            /\ UNCHANGED << last_request_time, get_log >>
       ELSE IssueGet(c)
    /\ UNCHANGED << now, request_delays, fpc, fetch_arg, gets, slept, responses, outcome,
                    calls, backoffs >>
    /\ UNCHANGED << crawl_vars, call_vars, loop_vars, reader_vars, rank_vars, score_vars >>

\* The sleep of the rate limit is over: the call goes on to its request.
CallerWakes ==
    \E c \in Callers :
    /\ callers[c].phase = "waiting"
    /\ TimerDue(c)
    /\ IssueGet(c)
    /\ UNCHANGED << now, request_delays, fpc, fetch_arg, gets, slept, responses, outcome,
                    calls, backoffs >>
    /\ UNCHANGED << crawl_vars, call_vars, loop_vars, reader_vars, rank_vars, score_vars >>

\* The call returns or raises.
CallerEnds(c) == callers' = [callers EXCEPT ![c] = [phase |-> "returned", wake |-> 0]]

\* The first GET of a call returns or raises: the call ends, or a 429 sets
\* the delay of the host and the call suspends in asyncio.sleep.
CallerResponse ==
    \E c \in Callers, response \in GetOutcomes :
    /\ callers[c].phase = "get"
    /\ LET retry_after == HeaderOf(response)
       IN  IF response.error \/ response.status # 429
                  \/ (Truthy(retry_after) /\ ~IsInt(retry_after))
           THEN CallerEnds(c) /\ UNCHANGED request_delays
           ELSE IF Truthy(retry_after)
           THEN /\ request_delays' = Put(request_delays, domain, HeaderDelay(IntOf(retry_after)))
                /\ callers' = [callers EXCEPT ![c] =
                                  [phase |-> "backoff", wake |-> now + IntOf(retry_after)]]
           ELSE /\ request_delays' = Put(request_delays, domain, BackoffDelay(domain))
                /\ callers' = [callers EXCEPT ![c] =
                                  [phase |-> "backoff", wake |-> now + BackoffDelay(domain)]]
    /\ UNCHANGED << now, last_request_time, get_log, fpc, fetch_arg, gets, slept, responses,
                    outcome, calls, backoffs >>
    /\ UNCHANGED << crawl_vars, call_vars, loop_vars, reader_vars, rank_vars, score_vars >>

\* The sleep after a 429 is over: the call requests again.
CallerRetries ==
    \E c \in Callers :
    /\ callers[c].phase = "backoff"
    /\ TimerDue(c)
    /\ callers' = [callers EXCEPT ![c] = [phase |-> "retry", wake |-> 0]]
    /\ get_log' = get_log \cup {[caller |-> c, at |-> now, retry |-> TRUE]}
    /\ UNCHANGED << fetch_vars, crawl_vars, call_vars, loop_vars, reader_vars, rank_vars, score_vars >>

\* The second GET of a call returns or raises.
CallerRetryResponse ==
    \E c \in Callers :
    /\ callers[c].phase = "retry"
    /\ CallerEnds(c)
    /\ UNCHANGED get_log
    /\ UNCHANGED << fetch_vars, crawl_vars, call_vars, loop_vars, reader_vars, rank_vars, score_vars >>

\* Time passes while every call is suspended and no sleep is over: gather
\* has started every task, and a timer that is due fires before the clock
\* goes on.
Tick ==
    /\ now < TimeCap
    /\ \A c \in Callers : callers[c].phase # "new" /\ ~TimerDue(c)
    /\ now' = now + 1
    /\ UNCHANGED << request_delays, last_request_time, fpc, fetch_arg, gets, slept,
                    responses, outcome, calls, backoffs >>
    /\ UNCHANGED << callers, get_log >>
    /\ UNCHANGED << crawl_vars, call_vars, loop_vars, reader_vars, rank_vars, score_vars >>

\* A crawler whose batch is about to call fetch_url.
RaceInit ==
    /\ pc = "seeding"
    /\ max_pages = 0
    /\ Constructed
    /\ CrawlerRunAlone
    /\ FetcherInit
    /\ ReaderInit
    /\ NoRanking
    /\ NoScoring
    /\ callers = [c \in Callers |-> [phase |-> "new", wake |-> 0]]
    /\ get_log = {}

RaceNext ==
    \/ CallerStarts
    \/ CallerWakes
    \/ CallerResponse
    \/ CallerRetries
    \/ CallerRetryResponse
    \/ Tick

RaceSpec == RaceInit /\ [][RaceNext]_vars

(***************************************************************************)
(* scraper.py: step 3 of _get_prioritized_policy_urls and                  *)
(* _ai_prioritize_urls, which asks a chat model to order the URLs          *)
(***************************************************************************)

\* Largest number of URLs that the steps before hand to step 3.
MaxUrls == 12

\* Number of URLs from which step 3 asks for an order, and number of URLs
\* it returns at most.
AskOver == 5

TopCount == 10

\* all_urls, when the steps before found n URLs.
CoreRanking(n) == [i \in 1..n |-> "https://x.io/p" \o CharAt(LowerCase, i)]

\* What client.chat.completions.create comes to: an exception, or a message.
ApiError == [raises |-> TRUE, content |-> ""]

Message(content) == [raises |-> FALSE, content |-> content]

ApiOutcomes ==
    {ApiError, Message(""), Message("2,1"), Message(" 3, 3 ,1"), Message("0,99,x,2"),
     Message("12,11,10,9,8,7,6,5,4,3,2,1")}

RECURSIVE Split(_)
\* s.split(',')
Split(s) ==
    LET comma == PosIn(",", s)
    IN  IF comma = 0 THEN << s >>
        ELSE << SubSeq(s, 1, comma - 1) >> \o Split(SubSeq(s, comma + 1, Len(s)))

\* x.strip().isdigit()
IsNumber(x) == IsInt(Strip(x))

\* priority_indices
PriorityIndices(content) ==
    LET numbers == SelectSeq(Split(Strip(content)), IsNumber)
    IN  [i \in 1..Len(numbers) |-> IntOf(Strip(numbers[i])) - 1]

\* The list prioritized: the URLs of the indices that are in range, then the
\* URLs that are not among them.
Reordered(list, indices) ==
    LET InRange(idx) == 0 <= idx /\ idx < Len(list)
        chosen       == SelectSeq(indices, InRange)
        picked       == [i \in 1..Len(chosen) |-> list[chosen[i] + 1]]
        Missed(url)  == \A i \in 1..Len(picked) : picked[i] # url
    IN  picked \o SelectSeq(list, Missed)

\* The except clause of _ai_prioritize_urls, had it caught nothing.
AiCatches_Nothing(exception) == FALSE

\* except Exception in _ai_prioritize_urls.
AiCatches(exception) == exception \in {"APIError"}

\* Step 3: the URLs go to the chat model when there are more than 5 of them
\* and OPENAI_API_KEY is set; all_urls[:10] is returned otherwise.
Prioritize ==
    /\ ppc = "start"
    /\ IF Len(all_urls) > AskOver /\ api_key
       THEN ppc' = "asking" /\ UNCHANGED delivered
       ELSE ppc' = "done" /\ delivered' = Prefix(all_urls, TopCount)
    /\ UNCHANGED << all_urls, api_key, api_outcome, prioritized >>
    /\ UNCHANGED << crawl_vars, call_vars, fetch_vars, loop_vars, reader_vars, race_vars, score_vars >>

\* _ai_prioritize_urls: the chat model answers and the URLs are put in its
\* order, or the call raises and the URLs are returned as they came.
AiPrioritize ==
    /\ ppc = "asking"
    /\ \E reply \in ApiOutcomes :
        /\ api_outcome' = reply
        /\ IF ~reply.raises
           THEN /\ prioritized' = Reordered(all_urls, PriorityIndices(reply.content))
                /\ ppc' = "ranked"
           ELSE IF AiCatches("APIError")
           THEN /\ prioritized' = all_urls
                /\ ppc' = "ranked"
           ELSE /\ ppc' = "fault"
                /\ UNCHANGED prioritized
    /\ UNCHANGED << all_urls, api_key, delivered >>
    /\ UNCHANGED << crawl_vars, call_vars, fetch_vars, loop_vars, reader_vars, race_vars, score_vars >>

\* return prioritized_urls[:10]
Deliver ==
    /\ ppc = "ranked"
    /\ delivered' = Prefix(prioritized, TopCount)
    /\ ppc' = "done"
    /\ UNCHANGED << all_urls, api_key, api_outcome, prioritized >>
    /\ UNCHANGED << crawl_vars, call_vars, fetch_vars, loop_vars, reader_vars, race_vars, score_vars >>

\* The steps before found some URLs; the key is set or is not.
RankInit ==
    /\ pc = "seeding"
    /\ max_pages = 0
    /\ Constructed
    /\ CrawlerRunAlone
    /\ FetcherInit
    /\ ReaderInit
    /\ NoCallers
    /\ NoScoring
    /\ \E n \in 0..MaxUrls : all_urls = CoreRanking(n)
    /\ api_key \in BOOLEAN
    /\ api_outcome = Message("")
    /\ prioritized = << >>
    /\ delivered = << >>
    /\ ppc = "start"

RankNext ==
    \/ Prioritize
    \/ AiPrioritize
    \/ Deliver

RankSpec == RankInit /\ [][RankNext]_vars

(***************************************************************************)
(* score_url: the function on its own, for URLs of many shapes             *)
(***************************************************************************)

\* The url argument of score_url: a URL of the domain with or without a
\* region prefix, under a directory, with or without a query or a fragment.
ScoreUrls ==
    LET regions == {"", "/us", "/en-us", "/us-en", "/US"}
        dirs    == {"/", "/pages/", "/help/", "/products/", "/blogs/news/", "/Support/"}
        names   == {"shipping-policy", "returns-exchanges", "customer-care", "faq", "about",
                    "cart", "search", "login", "Refund", "sale"}
        tails   == {"", "?a=1", "#top"}
    IN  {base_url \o region \o dir \o name \o tail :
            region \in regions, dir \in dirs, name \in names, tail \in tails}

\* A crawler stands constructed and score_url is about to be called.
ScoreInit ==
    /\ pc = "seeding"
    /\ max_pages = 0
    /\ Constructed
    /\ CrawlerRunAlone
    /\ FetcherInit
    /\ ReaderInit
    /\ NoCallers
    /\ NoRanking
    /\ spc = "start"
    /\ scored_url \in ScoreUrls
    /\ url_score = 0

\* score_url(url) returns.
ScoreUrl ==
    /\ spc = "start"
    /\ url_score' = score_url(scored_url)
    /\ spc' = "done"
    /\ UNCHANGED << crawl_vars, call_vars, fetch_vars, loop_vars, reader_vars, race_vars,
                    rank_vars, scored_url >>

ScoreNext == ScoreUrl

ScoreSpec == ScoreInit /\ [][ScoreNext]_vars

(***************************************************************************)
(* Properties                                                              *)
(***************************************************************************)

\* gather has every result of the running batch.
BatchComplete == pc = "gather" /\ \A url \in current_batch : task[url] = "done"

\* C1: under every interleaving of the crawl_page tasks, the Crawled Set never
\* holds more URLs than the page budget, and no step makes it smaller.
C1_CrawledWithinBudget ==
    /\ [](Cardinality(crawled_urls) <= max_pages)
    /\ [][Cardinality(crawled_urls') >= Cardinality(crawled_urls)]_vars

\* The budget is used up while a task of the batch has not started yet.
C1_Witness ==
    /\ pc = "gather"
    /\ max_pages >= 2
    /\ Cardinality(crawled_urls) = max_pages
    /\ \E url \in current_batch : task[url] = "pending"

\* C2: when every crawled page yielded a link not discovered yet, the loop ends
\* with exactly max_pages crawled URLs; and no crawl fetch is issued once the
\* Crawled Set has reached the budget.
C2_HaltsAtBudget ==
    /\ [](pc \in {"scoring", "done"} /\ ~starved => Cardinality(crawled_urls) = max_pages)
    /\ [][fetch_count' # fetch_count => Cardinality(crawled_urls) < max_pages]_vars

\* A session with max_pages = 5 whose every crawled page yielded new links.
C2_Witness ==
    /\ pc = "done"
    /\ ~starved
    /\ max_pages = 5
    /\ Cardinality(crawled_urls) = 5
    /\ to_crawl # {}

\* C3: every session reaches DONE (checked under LiveSpec: every fetch returns).
C3_ReachesDone == <>(pc = "done")

\* A session that ended after several batches with URLs left on the frontier.
C3_Witness == pc = "done" /\ iterations >= 3 /\ to_crawl # {}

\* ceil(a / b)
Ceil(a, b) == (a + b - 1) \div b

\* C4, as claimed: the loop runs at most ceil(max_pages / BatchSize) iterations.
C4_CeilIterations == iterations <= Ceil(max_pages, BatchSize)

\* C4, amended: the loop runs at most max_pages iterations.
C4_BudgetIterations == iterations <= max_pages

\* A session that used one iteration for each page of its budget.
C4_Witness == pc = "done" /\ max_pages >= 3 /\ iterations = max_pages

\* C5: no URL is fetched by crawl_page more than once, and no batch brings a
\* URL that is in the Crawled Set already.
C5_CrawledOnce ==
    /\ \A url \in DOMAIN fetch_count : fetch_count[url] <= 1
    /\ \A url \in current_batch :
          pc = "gather" /\ task[url] = "pending" => url \notin crawled_urls

\* Three batches were crawled, one fetch for each crawled URL, and a fetch failed.
C5_Witness ==
    /\ pc = "done"
    /\ iterations >= 3
    /\ Cardinality(crawled_urls) >= 3
    /\ starved
    /\ \A url \in crawled_urls : Fetches(url) = 1

\* C6, as claimed: when a batch completes, each of its URLs is crawled.
C6_BatchCrawled == BatchComplete => current_batch \subseteq crawled_urls

\* C6, amended: when a batch completes, each of its URLs is crawled, unless the
\* Crawled Set has reached the budget.
C6_BatchCrawledOrBudget ==
    BatchComplete =>
        current_batch \subseteq crawled_urls \/ Cardinality(crawled_urls) = max_pages

\* A batch of two with a failed task completed below the budget.
C6_Witness ==
    /\ BatchComplete
    /\ Cardinality(current_batch) >= 2
    /\ \E url \in current_batch : ~results[url].is_set
    /\ Cardinality(crawled_urls) < max_pages
    /\ current_batch \subseteq crawled_urls

\* SEEDING is over and no batch was taken.
Seeded == pc = "loop" /\ iterations = 0

C8_DiscoveredContains ==
    /\ [](to_crawl \subseteq found_urls /\ crawled_urls \subseteq found_urls)
    /\ [][found_urls \subseteq found_urls']_vars

\* Between two batches: a frontier, crawled URLs, and discovered URLs in neither.
C8_Witness ==
    /\ pc = "delay"
    /\ to_crawl # {}
    /\ Cardinality(crawled_urls) >= 2
    /\ found_urls \ (to_crawl \cup crawled_urls) # {}

\* Scheme, host and path of the URLs of the model; and whether a URL has a
\* query or a fragment.
TargetOf ==
    [url \in Universe |->
        LET parsed == urlparse(url) IN << parsed.scheme, parsed.netloc, parsed.path >>]

DecoratedOf ==
    [url \in Universe |->
        LET parsed == urlparse(url) IN parsed.query # "" \/ parsed.fragment # ""]

\* Two URLs differ only in query or fragment.
Variants(u, v) == u # v /\ TargetOf[u] = TargetOf[v]

\* C9, as claimed: the Discovered Set has no two URLs that differ only in
\* query or fragment.
C9_NoVariants == \A u, v \in found_urls : ~Variants(u, v)

\* The URLs of the Discovered Set that the sitemaps did not list.
Extracted == found_urls \ sitemap_urls

\* C9, amended: a discovered URL that no sitemap listed has no query and no
\* fragment, and no two such URLs differ only in query or fragment.
C9_NoExtractedVariants ==
    /\ \A url \in Extracted : ~DecoratedOf[url]
    /\ \A u, v \in Extracted : ~Variants(u, v)

\* Links with a query and with a fragment were extracted and discovered.
C9_Witness ==
    /\ {"https://x.io/faq", "https://x.io/help"} \subseteq Extracted
    /\ "https://x.io/faq?a=1" \in found_urls

\* C10: the returned list is in descending order of score, and URLs of equal
\* score are in ascending order.
C10_Ranked ==
    pc = "done" =>
        \A i, j \in 1..Len(returned) :
            i < j =>
                \/ ScoreOf[returned[i]] > ScoreOf[returned[j]]
                \/ /\ ScoreOf[returned[i]] = ScoreOf[returned[j]]
                   /\ UrlLess[returned[i], returned[j]]

\* A returned list with a tie and with two different scores.
C10_Witness ==
    /\ pc = "done"
    /\ Len(returned) >= 3
    /\ \E i, j \in 1..Len(returned) :
          i # j /\ ScoreOf[returned[i]] = ScoreOf[returned[j]]
    /\ \E i, j \in 1..Len(returned) : ScoreOf[returned[i]] # ScoreOf[returned[j]]

\* The discovered URLs of positive score, and the order of the ranking.
Positive == {url \in found_urls : ScoreOf[url] > 0}

Outranks(a, b) ==
    ScoreOf[a] > ScoreOf[b] \/ (ScoreOf[a] = ScoreOf[b] /\ UrlLess[a, b])

\* C11: what find_policy_links returns is the first limit entries of the ranked
\* list of the discovered URLs of positive score: it has at most limit entries,
\* each a discovered URL of positive score, in ranking order without repetition,
\* and a discovered URL of positive score is left out only when limit entries
\* that outrank it are returned.
C11_FirstOfRanked ==
    pc = "caller" =>
        /\ Len(policy_links) <= limit
        /\ \A i \in 1..Len(policy_links) : policy_links[i] \in Positive
        /\ \A i, j \in 1..Len(policy_links) :
              i < j => Outranks(policy_links[i], policy_links[j])
        /\ \A url \in Positive :
              (\A i \in 1..Len(policy_links) : policy_links[i] # url) =>
                  /\ Len(policy_links) = limit
                  /\ \A i \in 1..Len(policy_links) : Outranks(policy_links[i], url)

\* A call with limit 2 that discovered four URLs of positive score, two of
\* them tied, and a URL of score 0.
C11_Witness ==
    /\ pc = "caller"
    /\ limit = 2
    /\ Len(policy_links) = 2
    /\ ScoreOf[policy_links[1]] = ScoreOf[policy_links[2]]
    /\ Cardinality(Positive) = 4
    /\ \E url \in found_urls : ScoreOf[url] = 0

\* The returned list is the ranking of the discovered URLs of positive score.
RankingReturned ==
    /\ Len(returned) = Cardinality(Positive)
    /\ \A i \in 1..Len(returned) : returned[i] \in Positive
    /\ \A i, j \in 1..Len(returned) : i < j => Outranks(returned[i], returned[j])

\* C12: the list a run of run_complete_crawl returns is determined by the
\* contents of the Discovered Set: it is the ranking of its URLs of positive
\* score, whatever order they were discovered in, and a run on the same crawler
\* that ends with the Discovered Set of the run before returns the same list.
C12_OutputOfDiscoveredSet ==
    pc = "done" =>
        /\ RankingReturned
        /\ runs > 1 /\ found_urls = previous.found => returned = previous.returned

\* C13: whatever the fetches of a session come to, the session never ends by
\* an exception that leaves run_complete_crawl, and it ends by returning a list
\* of URLs.
C13_ReturnsList ==
    /\ [](pc # "fault")
    /\ <>(pc = "done" /\ returned \in Seq(found_urls))

\* A session that returned a list after a task of a batch of two raised, one
\* fetch returned nothing, and one returned a page.
C13_Witness ==
    /\ pc = "done"
    /\ \E url \in current_batch : ~results[url].is_set
    /\ \E url \in current_batch : results[url].is_set /\ results[url].links = {}
    /\ Cardinality(current_batch) >= 2
    /\ Len(returned) >= 2

\* The session failed totally: the sitemaps and the homepage were unfetchable.
TotalFailure == fetch_log = [sitemaps |-> "failed", homepage |-> "failed"]

\* C14: when the session of a fresh crawler fails totally, run_complete_crawl
\* returns the empty list and so does find_policy_links, whatever the domain.
C14_EmptyOnTotalFailure ==
    runs = 1 /\ TotalFailure =>
        /\ pc = "done" => returned = << >>
        /\ pc = "caller" => policy_links = << >>

\* The host of the running call, its first response and its last.
FetchHost == NetlocOf[fetch_arg]

FirstOutcome == responses[1]

LastOutcome == responses[Len(responses)]

\* The first response of the call is a 429 with the Retry-After value given.
RetryAfterReceived(value) ==
    /\ fpc \in {"retry", "returned"}
    /\ FirstOutcome = ResponseRetryAfter(value)

\* The call slept for the seconds given, set the delay of the host, issued
\* its second and last GET, and returns what that request comes to.
RetriedOnceAfter(seconds, delay) ==
    /\ slept = << seconds >>
    /\ request_delays[FetchHost] = delay
    /\ gets = 2
    /\ fpc = "returned" =>
          /\ Len(responses) = 2
          /\ outcome = IF ~LastOutcome.error /\ LastOutcome.status = 200 THEN "text"
                        ELSE "absent"

\* C15: a call whose first response is a 429 with Retry-After = n sleeps for n,
\* sets the delay of the host to max(n, 5), issues one more GET and returns
\* what it comes to, the text on a 200 and None otherwise: for n = 10 it sleeps
\* for 10 and the delay is 10, for n = 3 it sleeps for 3 and the delay is 5.
C15_RetryAfterHonoured ==
    /\ RetryAfterReceived("10") => RetriedOnceAfter(10, 10)
    /\ RetryAfterReceived("3") => RetriedOnceAfter(3, 5)

\* Calls returned after a 429 with Retry-After: 3 and then a 200, the text.
C15_Witness ==
    /\ fpc = "returned"
    /\ RetryAfterReceived("3")
    /\ LastOutcome = Response(200)
    /\ outcome = "text"

\* C16: a call whose first response is a 429 issues exactly one more GET,
\* whatever the Retry-After header holds, and no call issues more than two.
C16_RetriesOnce ==
    /\ gets <= 2
    /\ fpc = "returned" /\ ~FirstOutcome.error /\ FirstOutcome.status = 429 =>
          gets = 2 /\ Len(responses) = 2 /\ Len(slept) = 1

\* The delays successive 429 responses without Retry-After set for a host that
\* had none: 4, 8, 16, 30, 30, and 30 from then on.
BackoffSequence == << 4, 8, 16, 30, 30 >>

ExpectedBackoff(k) == IF k <= Len(BackoffSequence) THEN BackoffSequence[k] ELSE 30

\* The first response of the call is a 429 without a Retry-After value.
BareTooManyRequests ==
    /\ fpc \in {"retry", "returned"}
    /\ ~FirstOutcome.error
    /\ FirstOutcome.status = 429
    /\ HeaderOf(FirstOutcome) = ""

\* C17: a 429 without Retry-After sets the delay of the host to the smaller of
\* 30 and twice the delay before it, 2 when there was none, and the call sleeps
\* for the new delay before its retry; such responses alone set the delay of a
\* host to 4, 8, 16, 30, 30 and so on.
C17_BackoffDoubles ==
    /\ [](BareTooManyRequests => slept = << request_delays[FetchHost] >>)
    /\ [](\A host \in DOMAIN backoffs :
             backoffs[host] >= 1 => request_delays[host] = ExpectedBackoff(backoffs[host]))
    /\ [][fpc = "get" /\ BareTooManyRequests' =>
             request_delays'[FetchHost] =
                 Min(2 * (IF FetchHost \in DOMAIN request_delays
                          THEN request_delays[FetchHost] ELSE 2), 30)]_vars

\* The fifth 429 without Retry-After in a row left the delay of the host at 30.
C17_Witness ==
    /\ BareTooManyRequests
    /\ backoffs[FetchHost] = 5
    /\ request_delays[FetchHost] = 30

\* C18: a call returns the text when the last request it made came to a
\* response of status 200, and None otherwise: on another status, on an error
\* of the transport, and when the retry after a 429 fails; it raises nothing.
C18_TextOnlyOnOk ==
    fpc = "returned" =>
        /\ outcome \in {"text", "absent"}
        /\ outcome = "text" <=> (~LastOutcome.error /\ LastOutcome.status = 200)

\* A call returned None when the retry after a 429 met an error of the transport.
C18_Witness ==
    /\ fpc = "returned"
    /\ Len(responses) = 2
    /\ FirstOutcome.status = 429
    /\ LastOutcome.error
    /\ outcome = "absent"

\* The three tests of the classifier on the URLs of the called domains.
Classified ==
    [d \in Domains, url \in DomainUniverse |->
        [same_domain |-> SameDomain(d, url),
         english     |-> is_english_url(url),
         us          |-> is_us_url(url)]]

\* The two sitemap entries of the example.
ReturnPolicy == "https://shop.example/pages/return-policy"

Retours == "https://shop.example/fr/pages/retours"

\* C19: every URL of the Discovered Set but the homepage, which is put there
\* as it is, passes the three tests of the classifier: same domain, English
\* locale, US region; of the sitemap entries .../pages/return-policy and
\* .../fr/pages/retours of shop.example the first alone is discovered.
C19_DiscoveredEligible ==
    /\ \A url \in found_urls \ {Homepage} :
          /\ Classified[target, url].same_domain
          /\ Classified[target, url].english
          /\ Classified[target, url].us
    /\ pc # "seeding" /\ target = "shop.example" /\ sitemap_locs = {ReturnPolicy, Retours} =>
          ReturnPolicy \in found_urls /\ Retours \notin found_urls

\* The sitemap of the example was read, and the homepage gave a link that was
\* discovered beside links off the domain and off the region that were not.
C19_Witness ==
    /\ pc = "done"
    /\ target = "shop.example"
    /\ sitemap_locs = {ReturnPolicy, Retours}
    /\ fetch_log.homepage = "fetched"
    /\ found_urls = {Homepage, ReturnPolicy, "https://shop.example/pages/faq",
                     "https://shop.example/returns"}

\* The URL of the example, and what it earns from each table.
ShippingPolicy == "https://shop.example/pages/shipping-policy"

ShippingPolicyParts ==
    [primary   |-> {kw \in {KEYWORDS_PRIMARY[i] : i \in 1..Len(KEYWORDS_PRIMARY)} :
                       Contains(ShippingPolicy, kw)},
     secondary |-> {kw \in {KEYWORDS_SECONDARY[i] : i \in 1..Len(KEYWORDS_SECONDARY)} :
                       Contains(ShippingPolicy, kw)},
     path      |-> {kw \in {PATH_KEYWORDS[i] : i \in 1..Len(PATH_KEYWORDS)} :
                       Contains(ShippingPolicy, kw)},
     segment   |-> {kw \in {policy_paths[i] : i \in 1..Len(policy_paths)} :
                       Contains(ShippingPolicy, kw)},
     noise     |-> {kw \in {NOISE_PATTERNS[i] : i \in 1..Len(NOISE_PATTERNS)} :
                       Contains(ShippingPolicy, kw)}]

\* Step 3 gave the URL the score, wherever it put the URL on policy_urls.
ScoredAs(url, score) ==
    \A i \in 1..Len(policy_urls) : policy_urls[i][2] = url => policy_urls[i][1] = score

\* C20, as claimed: the score of .../pages/shipping-policy is 11.
C20_ScoresEleven == ScoredAs(ShippingPolicy, 11)

\* C20, amended: the score of .../pages/shipping-policy is 19: 5 for each of
\* the primary keywords "shipping" and "shipping-policy", 3 for the secondary
\* keyword "policy", 4 for the path keyword "shipping-policy", 2 for the
\* segment "/pages/", and no penalty.
C20_ScoresNineteen ==
    /\ ScoredAs(ShippingPolicy, 19)
    /\ ShippingPolicyParts =
          [primary   |-> {"shipping", "shipping-policy"},
           secondary |-> {"policy"},
           path      |-> {"shipping-policy"},
           segment   |-> {"/pages/"},
           noise     |-> {}]

\* A session discovered the URL in a sitemap and returned it.
C20_Witness ==
    /\ pc = "done"
    /\ ShippingPolicy \in sitemap_urls
    /\ \E i \in 1..Len(returned) : returned[i] = ShippingPolicy

CollectionsAll == "https://shop.example/collections/all?sort=price"

\* The noise patterns that occur in the URL.
CollectionsAllNoise ==
    {kw \in {NOISE_PATTERNS[i] : i \in 1..Len(NOISE_PATTERNS)} : Contains(CollectionsAll, kw)}

\* The URL is on none of the lists a session hands out.
Withheld(url) ==
    /\ \A i \in 1..Len(policy_urls) : policy_urls[i][2] # url
    /\ \A i \in 1..Len(returned) : returned[i] # url
    /\ \A i \in 1..Len(policy_links) : policy_links[i] # url

\* C21: the score of https://shop.example/collections/all?sort=price is 0,
\* the noise patterns "/collections/" and "?" having matched, and the URL,
\* discovered or not, is on no list that the session returns.
C21_NoiseScoresZero ==
    /\ ScoreOf[CollectionsAll] = 0
    /\ CollectionsAllNoise = {"/collections/", "?"}
    /\ Withheld(CollectionsAll)

\* A session discovered the URL in a sitemap and returned other URLs.
C21_Witness ==
    /\ pc = "caller"
    /\ CollectionsAll \in found_urls
    /\ policy_links # << >>

\* The URLs of the site without query and fragment that is_same_domain,
\* is_english_url and is_us_url accept.
Acceptable ==
    {url \in Universe :
        /\ urlparse(url).query = ""
        /\ urlparse(url).fragment = ""
        /\ is_same_domain(url)
        /\ is_english_url(url)
        /\ is_us_url(url)}

\* The crawl_page task of the URL ends in this step.
Returns(url) == url \in current_batch /\ task[url] = "fetching" /\ task'[url] = "done"

\* C30: every URL that extract_links_from_html returns has an empty query and
\* an empty fragment, is same-domain, of an acceptable locale and region, and
\* was not in the Crawled Set when the call was made; when the page does not
\* parse the call returns the empty set and raises nothing.
C30_ExtractedAcceptable ==
    [][\A url \in current_batch :
          Returns(url) =>
              /\ results'[url].links \subseteq Acceptable \ crawled_urls
              /\ url \in unparsed' => results'[url] = SetResult({})]_vars

\* In one batch a page gave links and another did not parse, while the
\* Crawled Set held URLs that pages link to.
C30_Witness ==
    /\ pc = "gather"
    /\ unparsed # {}
    /\ \E url \in current_batch : task[url] = "done" /\ results[url].links # {}
    /\ base_url \in crawled_urls

\* The loop has slept after a batch.
Slept == pc \in {"loop", "scoring", "done"} /\ iterations >= 1

\* The delay that the responses to the one fetch_url call of the session
\* left for the domain: the backoff 4 after a 429 without Retry-After, the
\* floored header after a 429 with a number of seconds, and none otherwise.
HeldDelay ==
    IF responses = << >> \/ responses[1].error \/ responses[1].status # 429 THEN 0
    ELSE IF ~responses[1].has_retry_after \/ responses[1].retry_after = "" THEN 4
    ELSE IF responses[1].retry_after = "3" THEN 5
    ELSE IF responses[1].retry_after = "10" THEN 10
    ELSE 0

\* C27: after a batch the loop sleeps for the delay that the fetcher holds
\* for the domain being crawled, and for 3 when the fetcher holds none.
C27_AdaptiveBatchDelay ==
    Slept =>
        /\ batch_delay = IF HeldDelay # 0 THEN HeldDelay ELSE 3
        /\ batch_delay = IF domain \in DOMAIN request_delays THEN request_delays[domain] ELSE 3

\* The loop slept 10 after the batch whose fetch met a 429 with Retry-After: 10.
C27_Witness == Slept /\ batch_delay = 10 /\ Len(responses) = 2

\* C26: a batch holds 10 URLs at most, and no URL leaves the frontier or is
\* fetched before the crawl_page task of every URL of the batch before has
\* ended: the URLs that leave the frontier are the next batch, taken when
\* the tasks are done, and the URLs fetched are URLs of the running batch.
C26_BatchBarrier ==
    [][/\ Cardinality(current_batch') <= 10
       /\ to_crawl \ to_crawl' # {} =>
              /\ \A url \in current_batch : task[url] = "done"
              /\ current_batch' = to_crawl \ to_crawl'
       /\ crawled_urls' \ crawled_urls \subseteq current_batch \ to_crawl
       /\ current_batch' # current_batch => \A url \in current_batch : task[url] = "done"]_vars

\* A batch of ten URLs is running, one task done and one not, while the
\* frontier holds an eleventh URL.
C26_Witness ==
    /\ pc = "gather"
    /\ Cardinality(current_batch) = 10
    /\ to_crawl # {}
    /\ \E u, v \in current_batch : task[u] = "done" /\ task[v] = "pending"

\* fetch_sitemap_urls has returned, or an exception has left it.
ReaderEnded == rpc \in {"done", "fault"}

\* The URLs the reader has requested.
Requested == {r.url : r \in requests}

\* No failure kept a sitemap from being processed: every entry of the list
\* has been passed to process_sitemap, and so has every sitemap that a parsed
\* entry of the list refers to, itself apart.
SiblingsProcessed ==
    ReaderEnded =>
        /\ top_calls = sitemap_list
        /\ "https://x.io/sitemap.xml" \in parsed_top =>
               {"https://x.io/sitemap-pages.xml", "https://x.io/sitemap_index.xml"}
                   \subseteq Requested

\* C22, as claimed: a sitemap whose fetch, decompression or parse failed
\* contributes no URL, and the failure keeps no sibling sitemap from being
\* processed.
C22_FailureContributesNothing ==
    /\ (last.result \in {"error", "status", "unparsed"} \/ last.decompress = "failed") =>
           last.kept = {}
    /\ SiblingsProcessed

\* C22, amended: a sitemap whose fetch or parse failed contributes no URL;
\* when the decompression fails the body is parsed as it was received, and
\* the sitemap contributes no URL only if that parse fails too; no failure
\* keeps a sibling sitemap from being processed.
C22_FailureIsolated ==
    /\ last.result \in {"error", "status", "unparsed"} => last.kept = {}
    /\ last.decompress = "failed" =>
           last.kept = IF last.result = "parsed" THEN {"https://x.io/returns"} ELSE {}
    /\ SiblingsProcessed

\* The reader has returned: the first sitemap of the fallback list failed,
\* and the last, whose body was no gzip stream, gave its URL.
C22_Witness ==
    /\ rpc = "done"
    /\ "https://x.io/sitemap.xml" \in failed
    /\ last.url = "https://x.io/sitemap.xml.gz"
    /\ last.decompress = "failed"
    /\ "https://x.io/returns" \in urls

\* C25: every request of the session is issued by fetch_url, which checks
\* the delay of the host before it and records its time.
C25_AllThroughFetcher == \A r \in requests : r.via = "fetch_url"

\* C28: no sitemap is processed while a call that processes it is under way,
\* so that the recursion ends on the documents and never on the limit of the
\* interpreter.
C28_NoReentry ==
    /\ \A i, j \in 1..Len(stack) : i # j => stack[i].url # stack[j].url
    /\ ~overflowed

\* The list that the text of robots.txt calls for.
ExpectedList ==
    IF robots = "fetched" /\ robots_content = "sitemap: https://x.io/sitemap.xml\n"
    THEN << "https://x.io/sitemap.xml" >>
    ELSE IF robots = "fetched" /\ Len(robots_content) > 60
    THEN << "https://x.io/sitemap-pages.xml", "https://x.io/sitemap.xml.gz" >>
    ELSE << "https://x.io/sitemap.xml", "https://x.io/sitemap_index.xml",
            "https://x.io/sitemap.xml.gz" >>

\* C29: the reader processes the fallback locations when robots.txt was not
\* fetched or has no line that starts with "sitemap:", whatever the case of
\* the letters, and processes the URLs of these lines, and no other, when
\* there is one.
C29_FallbackIffNoDirective ==
    rpc \in {"sitemaps", "done"} =>
        /\ sitemap_list = ExpectedList
        /\ Len(top_calls) <= Len(sitemap_list)
        /\ \A i \in 1..Len(top_calls) : top_calls[i] = sitemap_list[i]
        /\ rpc = "done" => top_calls = sitemap_list

\* The reader has processed the two directives of robots.txt and returned.
C29_Witness ==
    /\ rpc = "done"
    /\ robots = "fetched"
    /\ top_calls = << "https://x.io/sitemap-pages.xml", "https://x.io/sitemap.xml.gz" >>

\* C24: any two GET requests that the fetch_url calls of a batch issue to
\* the host are 2 time units apart at least, the default delay of a host.
C24_RequestsSpaced ==
    \A g, h \in get_log :
        g # h => (g.at - h.at >= 2 \/ h.at - g.at >= 2)

\* The chat model was not asked, or the call raised.
NotReranked == ~api_key \/ api_outcome.raises

\* C23: when the key of the chat model is not set, or the call of the chat
\* model raises, the prioritization returns the URLs of the core ranking in
\* their order, and it returns 10 URLs at most in every case.
C23_FallsBackToCoreRanking ==
    /\ Len(delivered) <= 10
    /\ ppc # "fault"
    /\ (ppc = "done" /\ NotReranked) =>
           /\ Len(delivered) = IF Len(all_urls) <= 10 THEN Len(all_urls) ELSE 10
           /\ \A i \in 1..Len(delivered) : delivered[i] = all_urls[i]

\* Twelve URLs were found and the call of the chat model raised.
C23_Witness ==
    /\ ppc = "done"
    /\ Len(all_urls) = 12
    /\ api_key
    /\ api_outcome.raises
    /\ Len(delivered) = 10

\* The phase of the session that run_complete_crawl stands in: SEEDING 0,
\* CRAWLING 1, SCORING 2, DONE 3; an exception that left the session is no
\* phase.
Phase(p) ==
    CASE p = "seeding" -> 0
      [] p \in {"loop", "gather", "delay"} -> 1
      [] p = "scoring" -> 2
      [] p = "done" -> 3
      [] OTHER -> -1

\* C31: every step of a session stays in its phase or goes to the next of
\* SEEDING, CRAWLING, SCORING, DONE; what the sitemaps gave does not change
\* once the crawling loop is reached; and once scoring has begun no task is
\* left fetching, nothing is fetched and the Discovered Set does not change.
C31_PhasesInOrder ==
    [][/\ Phase(pc) >= 0 /\ Phase(pc') \in {Phase(pc), Phase(pc) + 1}
       /\ Phase(pc) >= 1 => sitemap_urls' = sitemap_urls /\ sitemap_locs' = sitemap_locs
       /\ Phase(pc') >= 2 => \A url \in DOMAIN task' : task'[url] = "done"
       /\ Phase(pc) >= 2 =>
              /\ found_urls' = found_urls
              /\ fetch_count' = fetch_count
              /\ crawled_urls' = crawled_urls
              /\ task' = task]_vars

\* A session that read a sitemap, ran three batches and more, fetched pages
\* and ended with a ranked list.
C31_Witness ==
    /\ pc = "done"
    /\ sitemap_urls # {}
    /\ iterations >= 3
    /\ Cardinality(crawled_urls) >= 3
    /\ found_urls \ (sitemap_urls \cup {base_url}) # {}
    /\ returned # << >>

\* The entries of the list that occur in s, each one once.
Occurring(list, s) == {kw \in {list[i] : i \in 1..Len(list)} : Contains(s, kw)}

\* The score as the sum of its parts, before the floor.
RawScore(url) ==
    LET s == Lower(url)
    IN    5 * Cardinality(Occurring(KEYWORDS_PRIMARY, s))
        + 3 * Cardinality(Occurring(KEYWORDS_SECONDARY, s))
        + 4 * Cardinality(Occurring(PATH_KEYWORDS, s))
        + (IF Occurring(policy_paths, s) # {} THEN 2 ELSE 0)
        + (IF Occurring(<< "/us/", "/en-us/" >>, s) # {} THEN 3 ELSE 0)
        - 2 * Cardinality(Occurring(NOISE_PATTERNS, s))

HostNames == {NetlocOf[url] : url \in HostUrls}

\* The step changes the delay that request_delays holds for the host.
DelayChanges(host) ==
    \/ (host \in DOMAIN request_delays') # (host \in DOMAIN request_delays)
    \/ /\ host \in DOMAIN request_delays'
       /\ host \in DOMAIN request_delays
       /\ request_delays'[host] # request_delays[host]

\* The step receives a 429 response to a request of the call.
Receives429 ==
    /\ Len(responses') = Len(responses) + 1
    /\ ~responses'[Len(responses')].error
    /\ responses'[Len(responses')].status = 429

\* C33: a step changes the delay of a host only when it receives a 429
\* response to a request to that host: a 200, another status and an error
\* of the transport change the delay of no host, and a 429 from a host
\* changes the delay of no other host.
C33_DelayChangesOnlyOn429 ==
    [][\A host \in HostNames :
           DelayChanges(host) => Receives429 /\ host = NetlocOf[fetch_arg]]_vars

\* Both hosts answered 429, the domain with Retry-After: 10 and the subdomain
\* without the header, and a later call returned the text of a page.
C33_Witness ==
    /\ DOMAIN request_delays = HostNames
    /\ request_delays["x.io"] = 10
    /\ request_delays["help.x.io"] = 4
    /\ fpc = "returned"
    /\ outcome = "text"
    /\ calls = 3

\* C34, as claimed: no step lowers the delay of a host, and the first delay
\* set for a host is not below the default delay.
C34_DelayNeverDecreases ==
    [][\A host \in DOMAIN request_delays' :
           request_delays'[host] >= MinDelay(host)]_vars

\* C34, amended: a 429 without Retry-After sets the delay of the host to the
\* smaller of 30 and twice the delay before, which is not below the delay
\* before; a 429 with Retry-After: n sets it to the larger of n and 5
\* whatever it was before, so that the delay may fall, but never below 4.
C34_DelayRaisedOrReset ==
    /\ [](\A host \in DOMAIN request_delays : request_delays[host] >= 4)
    /\ [][DelayChanges(FetchHost') =>
             /\ Receives429
             /\ LET before == MinDelay(FetchHost')
                    after  == request_delays'[FetchHost']
                    header == HeaderOf(responses'[Len(responses')])
                IN  IF header = ""
                    THEN after = Min(2 * before, 30) /\ after >= before
                    ELSE after = Max(IntOf(header), 5)]_vars

\* The delay of the host stands at 20 after 429 responses with and without
\* Retry-After: the header set it, and the responses without doubled it.
C34_Witness ==
    /\ BareTooManyRequests
    /\ fpc = "retry"
    /\ backoffs[FetchHost] = Mixed
    /\ request_delays[FetchHost] = 20

\* The loop stands between two batches.
BatchBoundary == pc \in {"loop", "delay"}

\* C35: between two batches no URL of the frontier is in the Crawled Set;
\* when the tasks of a batch have ended, one of its URLs at least has been
\* crawled by them; and the Crawled Set holds one URL at least for each
\* iteration the loop has run.
C35_IterationCrawlsOne ==
    /\ BatchBoundary => to_crawl \cap crawled_urls = {}
    /\ BatchComplete => current_batch \cap crawled_urls # {}
    /\ pc \in {"loop", "delay", "scoring", "done"} => iterations <= Cardinality(crawled_urls)

\* The loop stands before its third batch or a later one, below the budget
\* and with URLs on the frontier.
C35_Witness ==
    /\ pc = "loop"
    /\ iterations >= 2
    /\ to_crawl # {}
    /\ Cardinality(crawled_urls) < max_pages
    /\ Cardinality(crawled_urls) > iterations

====
